---- MODULE Spec2Model ----
(***************************************************************************)
(* AsyncCryptoStore: a crypto store on top of a flat asynchronous          *)
(* key-value backend (src/src/AsyncCryptoStore.ts).                        *)
(*                                                                         *)
(* Strings that the code takes apart (storage keys, identifiers) are       *)
(* sequences of one-character strings.  JavaScript values are tagged       *)
(* tuples.  One action is the code an operation runs between two awaits;   *)
(* a backend call takes effect atomically in the step that resumes after   *)
(* it.                                                                     *)
(***************************************************************************)
EXTENDS Integers, Sequences, FiniteSets, TLC

VARIABLES
    storage,    \* the backend: a function from the stored keys to their texts
    txns,       \* the Transaction objects, in creation order
    ops,        \* every operation ever issued, in issue order, with its position
    failures    \* per transaction, the values its operations threw, in catch order

vars == <<storage, txns, ops, failures>>

(***************************************************************************)
(* Bounds of the model.                                                    *)
(***************************************************************************)
MaxTxns == 2
MaxOps == 3
MaxCalls == 3
MaxListCalls == 4
MaxLimit == 2
\* SESSION_BATCH_SIZE is imported from matrix-js-sdk; the model takes a small
\* batch size so that a batch can fill up.
SESSION_BATCH_SIZE == 2
\* The values Date.now() returns are 1..MaxTime.
MaxTime == 2
\* The calls of the specification that counts the sessions needing backup.
MaxBackupCalls == 5

(***************************************************************************)
(* JavaScript values.                                                      *)
(***************************************************************************)
Null == <<"null">>
Undefined == <<"undefined">>
Obj(d) == <<"object", d>>
Str(x) == <<"string", x>>
Err(n) == <<"error", n>>
Arr(l) == <<"array", l>>

\* The truthiness test of `this.error ? ... : ...` and `!existing`.
Truthy(v) == v \notin {Null, Undefined}

\* What an operation handed to execute may throw.
Thrown == {Err("E1"), Err("E2"), Undefined}

NoResult == [threw |-> FALSE, value |-> Undefined]
ThrowResult(e) == [threw |-> TRUE, value |-> e]

(***************************************************************************)
(* Strings.  `s.startsWith(p)`, `s.split("/")`, `s.slice(n)`,              *)
(* encodeURIComponent and decodeURIComponent over the characters the model *)
(* uses: letters and digits are unreserved, "/" and "%" are escaped.       *)
(***************************************************************************)
Mut_StartsWith(s, p) ==
    /\ Len(s) >= Len(p) - 1
    /\ SubSeq(s, 1, Len(p) - 1) = SubSeq(p, 1, Len(p) - 1)

StartsWith(s, p) == Len(s) >= Len(p) /\ SubSeq(s, 1, Len(p)) = p

Slice(s, n) == SubSeq(s, n + 1, Len(s))

RECURSIVE Split(_)
Split(s) ==
    IF \A i \in 1..Len(s) : s[i] # "/"
    THEN <<s>>
    ELSE LET i == CHOOSE i \in 1..Len(s) :
                      s[i] = "/" /\ \A j \in 1..(i - 1) : s[j] # "/"
         IN  <<SubSeq(s, 1, i - 1)>> \o Split(Slice(s, i))

\* parts[n] of a JavaScript array: undefined past the end, and
\* decodeURIComponent(undefined) is the string "undefined".
Part(parts, n) ==
    IF n + 1 <= Len(parts)
    THEN parts[n + 1]
    ELSE <<"u", "n", "d", "e", "f", "i", "n", "e", "d">>

PercentCode(c) ==
    IF c = "/" THEN <<"%", "2", "F">>
    ELSE IF c = "%" THEN <<"%", "2", "5">>
    ELSE <<c>>

Mut_EncodeURIComponent(s) == s

RECURSIVE EncodeURIComponent(_)
EncodeURIComponent(s) ==
    IF s = <<>> THEN <<>>
    ELSE PercentCode(Head(s)) \o EncodeURIComponent(Tail(s))

\* The escape sequences decodeURIComponent meets in keys written with the
\* characters above.
PercentChar(h1, h2) ==
    IF h1 = "2" /\ h2 \in {"F", "f"} THEN "/"
    ELSE IF h1 = "2" /\ h2 = "5" THEN "%"
    ELSE "?"

RECURSIVE WellEncoded(_)
WellEncoded(s) ==
    IF s = <<>> THEN TRUE
    ELSE IF Head(s) # "%" THEN WellEncoded(Tail(s))
    ELSE /\ Len(s) >= 3
         /\ PercentChar(s[2], s[3]) # "?"
         /\ WellEncoded(Slice(s, 3))

RECURSIVE Unescape(_)
Unescape(s) ==
    IF s = <<>> THEN <<>>
    ELSE IF Head(s) # "%" THEN <<Head(s)>> \o Unescape(Tail(s))
    ELSE <<PercentChar(s[2], s[3])>> \o Unescape(Slice(s, 3))

\* decodeURIComponent throws URIError on a malformed escape sequence.
DecodeURIComponent(s) ==
    IF WellEncoded(s)
    THEN [threw |-> FALSE, value |-> Unescape(s)]
    ELSE ThrowResult(Err("URIError"))

(***************************************************************************)
(* Storage keys.                                                           *)
(***************************************************************************)
E2E_PREFIX ==
    <<"c", "r", "y", "p", "t", "o", ".">>

OUTGOING_KEY_REQUEST_PREFIX ==
    E2E_PREFIX \o
    <<"o", "u", "t", "g", "o", "i", "n", "g", "k", "e", "y", "r", "e", "q", "u", "e", "s", "t", "/">>

SECRET_STORE_PRIVATE_KEY_PREFIX ==
    E2E_PREFIX \o
    <<"s", "s", "s", "s", "_", "c", "a", "c", "h", "e", ".">>

END_TO_END_SESSION_PREFIX ==
    E2E_PREFIX \o
    <<"s", "e", "s", "s", "i", "o", "n", "s", "/">>

END_TO_END_SESSION_PROBLEMS_PREFIX ==
    E2E_PREFIX \o
    <<"s", "e", "s", "s", "i", "o", "n", ".", "p", "r", "o", "b", "l", "e", "m", "s", "/">>

INBOUND_SESSION_PREFIX ==
    E2E_PREFIX \o
    <<"i", "n", "b", "o", "u", "n", "d", "g", "r", "o", "u", "p", "s", "e", "s", "s", "i", "o", "n", "s", "/">>

Mut_INBOUND_SESSION_WITHHELD_PREFIX ==
    INBOUND_SESSION_PREFIX \o <<"w", "i", "t", "h", "h", "e", "l", "d", "/">>

INBOUND_SESSION_WITHHELD_PREFIX ==
    E2E_PREFIX \o
    <<"i", "n", "b", "o", "u", "n", "d", "g", "r", "o", "u", "p", "s", "e", "s", "s", "i", "o", "n", "s", ".", "w", "i", "t", "h", "h", "e", "l", "d", "/">>

ROOMS_PREFIX ==
    E2E_PREFIX \o
    <<"r", "o", "o", "m", "s", "/">>

SHARED_HISTORY_INBOUND_SESSIONS_PREFIX ==
    E2E_PREFIX \o
    <<"s", "h", "a", "r", "e", "d", "h", "i", "s", "t", "o", "r", "y", ".", "i", "n", "b", "o", "u", "n", "d", "g", "r", "o", "u", "p", "s", "e", "s", "s", "i", "o", "n", "s", "/">>

PARKED_SHARED_HISTORY_PREFIX ==
    E2E_PREFIX \o
    <<"s", "h", "a", "r", "e", "d", "h", "i", "s", "t", "o", "r", "y", ".", "p", "a", "r", "k", "e", "d", "/">>

KEY_END_TO_END_ACCOUNT ==
    E2E_PREFIX \o
    <<"a", "c", "c", "o", "u", "n", "t">>

KEY_CROSS_SIGNING_KEYS ==
    E2E_PREFIX \o
    <<"c", "r", "o", "s", "s", "_", "s", "i", "g", "n", "i", "n", "g", "_", "k", "e", "y", "s">>

KEY_NOTIFIED_ERROR_DEVICES ==
    E2E_PREFIX \o
    <<"n", "o", "t", "i", "f", "i", "e", "d", "_", "e", "r", "r", "o", "r", "_", "d", "e", "v", "i", "c", "e", "s">>

KEY_DEVICE_DATA ==
    E2E_PREFIX \o
    <<"d", "e", "v", "i", "c", "e", "_", "d", "a", "t", "a">>

KEY_SESSIONS_NEEDING_BACKUP ==
    E2E_PREFIX \o
    <<"s", "e", "s", "s", "i", "o", "n", "s", "n", "e", "e", "d", "i", "n", "g", "b", "a", "c", "k", "u", "p">>

KEY_END_TO_END_MIGRATION_STATE ==
    E2E_PREFIX \o
    <<"m", "i", "g", "r", "a", "t", "i", "o", "n">>

Mut_PrefixEndToEndSession(deviceKey) ==
    END_TO_END_SESSION_PREFIX \o EncodeURIComponent(deviceKey)

PrefixEndToEndSession(deviceKey) ==
    END_TO_END_SESSION_PREFIX \o EncodeURIComponent(deviceKey) \o <<"/">>

KeyOutgoingKeyRequest(requestId) ==
    OUTGOING_KEY_REQUEST_PREFIX \o EncodeURIComponent(requestId)

KeySecretStorePrivateKey(type) ==
    SECRET_STORE_PRIVATE_KEY_PREFIX \o EncodeURIComponent(type)

KeyEndToEndSession(deviceKey, sessionKey) ==
    PrefixEndToEndSession(deviceKey) \o EncodeURIComponent(sessionKey)

Mut_KeyEndToEndInboundGroupSession(senderKey, sessionId) ==
    INBOUND_SESSION_PREFIX \o senderKey \o <<"/">> \o sessionId

KeyEndToEndInboundGroupSession(senderKey, sessionId) ==
    INBOUND_SESSION_PREFIX \o EncodeURIComponent(senderKey) \o <<"/">>
        \o EncodeURIComponent(sessionId)

KeyEndToEndSessionProblems(deviceKey) ==
    END_TO_END_SESSION_PROBLEMS_PREFIX \o EncodeURIComponent(deviceKey)

KeyEndToEndInboundGroupSessionWithheld(senderKey, sessionId) ==
    INBOUND_SESSION_WITHHELD_PREFIX \o EncodeURIComponent(senderKey) \o <<"/">>
        \o EncodeURIComponent(sessionId)

Mut_KeyEndToEndRoom(roomId) == ROOMS_PREFIX \o EncodeURIComponent(roomId)

\* The room id is appended as it is.
KeyEndToEndRoom(roomId) == ROOMS_PREFIX \o roomId

KeySharedHistoryInboundGroupSessions(roomId) ==
    SHARED_HISTORY_INBOUND_SESSIONS_PREFIX \o EncodeURIComponent(roomId)

Mut_KeyParkedSharedHistory(roomId) == PARKED_SHARED_HISTORY_PREFIX

KeyParkedSharedHistory(roomId) ==
    PARKED_SHARED_HISTORY_PREFIX \o EncodeURIComponent(roomId)

(***************************************************************************)
(* JSON.  A text is a sequence of tokens: a value's payload is one token,  *)
(* wrapped in the punctuation of its type.  JSON.parse inverts             *)
(* JSON.stringify and throws SyntaxError on any other text.                *)
(***************************************************************************)
JsonNullText == <<"n", "u", "l", "l">>

JsonStringify(v) ==
    IF v = Null THEN JsonNullText
    ELSE IF v[1] = "object" THEN <<"{", v[2], "}">>
    ELSE IF v[1] = "array" THEN <<"[", v[2], "]">>
    ELSE <<"\"", v[2], "\"">>

JsonParse(text) ==
    IF text = JsonNullText THEN [threw |-> FALSE, value |-> Null]
    ELSE IF Len(text) = 3 /\ text[1] = "{" /\ text[3] = "}"
    THEN [threw |-> FALSE, value |-> Obj(text[2])]
    ELSE IF Len(text) = 3 /\ text[1] = "[" /\ text[3] = "]"
    THEN [threw |-> FALSE, value |-> Arr(text[2])]
    ELSE IF Len(text) = 3 /\ text[1] = "\"" /\ text[3] = "\""
    THEN [threw |-> FALSE, value |-> Str(text[2])]
    ELSE ThrowResult(Err("SyntaxError"))

(***************************************************************************)
(* The backend (AsyncStore): a map from key strings to value strings.      *)
(***************************************************************************)
Mut_GetItem(st, key) == Null

\* getItem: null when the key is absent.
GetItem(st, key) == IF key \in DOMAIN st THEN st[key] ELSE Null

SetItem(st, key, text) ==
    [k \in DOMAIN st \cup {key} |-> IF k = key THEN text ELSE st[k]]

RemoveItem(st, key) == [k \in DOMAIN st \ {key} |-> st[k]]

\* getAllKeys returns the keys in an order the backend chooses; a filter
\* keeps that order.  The possible results of getAllKeys().filter(keep).
Orderings(S) ==
    {ks \in [1..Cardinality(S) -> S] : \A i, j \in DOMAIN ks : i # j => ks[i] # ks[j]}

\* obj[name] = v on a plain object.
ObjSet(obj, name, v) ==
    [k \in DOMAIN obj \cup {name} |-> IF k = name THEN v ELSE obj[k]]

Mut_GetJsonItem(st, key) == JsonParse(GetItem(st, key))

\* _getJsonItem
GetJsonItem(st, key) ==
    LET item == GetItem(st, key)
    IN  IF item = Null THEN [threw |-> FALSE, value |-> Null] ELSE JsonParse(item)

Mut_SetJsonItem(st, key, v) ==
    IF key \in DOMAIN st THEN st ELSE SetItem(st, key, JsonStringify(v))

\* _setJsonItem
SetJsonItem(st, key, v) == SetItem(st, key, JsonStringify(v))

(***************************************************************************)
(* class Transaction                                                       *)
(***************************************************************************)
\* The fields after construction.  resolve stands for both callbacks: the
\* code sets resolve and reject to null together.
NewTransaction ==
    [numOps |-> 0, error |-> Null, resolve |-> TRUE,
     promise |-> "pending", reason |-> Undefined]

\* Calling the promise's reject / resolve callbacks: a promise settles once.
PromiseReject(tx, e) ==
    IF tx.promise = "pending"
    THEN [tx EXCEPT !.promise = "rejected", !.reason = e]
    ELSE tx

PromiseResolve(tx) ==
    IF tx.promise = "pending" THEN [tx EXCEPT !.promise = "resolved"] ELSE tx

Mut_OnOperationStarted(tx) ==
    [threw |-> FALSE, tx |-> [tx EXCEPT !.numOps = tx.numOps + 1]]

\* onOperationStarted: throws on a completed transaction, else counts the
\* operation.
OnOperationStarted(tx) ==
    IF ~tx.resolve
    THEN [threw |-> TRUE, tx |-> tx]
    ELSE [threw |-> FALSE, tx |-> [tx EXCEPT !.numOps = tx.numOps + 1]]

Mut_OnOperationEnded(tx) ==
    LET t1 == [tx EXCEPT !.numOps = tx.numOps - 1]
        t2 == IF ~t1.resolve THEN t1
              ELSE IF Truthy(t1.error) THEN PromiseReject(t1, t1.error)
              ELSE PromiseResolve(t1)
    IN  [t2 EXCEPT !.resolve = FALSE]

\* onOperationEnded: the last operation to end settles the promise.
OnOperationEnded(tx) ==
    LET t1 == [tx EXCEPT !.numOps = tx.numOps - 1]
    IN  IF t1.numOps = 0
        THEN LET t2 == IF ~t1.resolve THEN t1
                       ELSE IF Truthy(t1.error) THEN PromiseReject(t1, t1.error)
                       ELSE PromiseResolve(t1)
             IN  [t2 EXCEPT !.resolve = FALSE]
        ELSE t1

Mut_ExecuteCatch(tx, e) ==
    IF Truthy(tx.error) THEN tx ELSE [tx EXCEPT !.error = e]

\* The catch clause of execute: this.error = e.
ExecuteCatch(tx, e) == [tx EXCEPT !.error = e]

Mut_ExecuteFinish(tx, r) ==
    IF r.threw THEN ExecuteCatch(tx, r.value) ELSE OnOperationEnded(tx)

\* The part of execute that runs when the awaited func has settled with
\* result r: the catch clause if it threw, then the finally clause.
ExecuteFinish(tx, r) ==
    OnOperationEnded(IF r.threw THEN ExecuteCatch(tx, r.value) ELSE tx)

Settled(tx) == tx.promise # "pending"

(***************************************************************************)
(* Operations.  An operation record is one call of execute (or one direct  *)
(* call of a method that takes no transaction, txn = 0).                   *)
(*   pc: "refused"  execute threw in onOperationStarted, func never ran    *)
(*       "run"      func is suspended at an await                          *)
(*       "finished" func has returned or thrown, execute not yet resumed   *)
(*       "ended"    execute has run its finally clause                     *)
(***************************************************************************)
NewOp(kind, t, a1, a2, val) ==
    [kind |-> kind, txn |-> t, pc |-> "run", ph |-> 0,
     a1 |-> a1, a2 |-> a2, val |-> val,
     keys |-> <<>>, acc |-> Undefined, out |-> <<>>, result |-> NoResult]

\* execute(func) on transaction t: the synchronous part.  execute is an
\* async function: what onOperationStarted throws rejects the promise that
\* execute returns (the result of a refused operation).
ExecuteOn(txs, os, t, op) ==
    LET s == OnOperationStarted(txs[t])
    IN  IF s.threw
        THEN [txns |-> txs,
              ops |-> Append(os, [op EXCEPT !.pc = "refused",
                                            !.result = ThrowResult(Err("completed"))])]
        ELSE [txns |-> [txs EXCEPT ![t] = s.tx], ops |-> Append(os, op)]

\* doTxn: a new Transaction.
DoTxn ==
    /\ Len(txns) < MaxTxns
    /\ txns' = Append(txns, NewTransaction)
    /\ failures' = Append(failures, <<>>)
    /\ UNCHANGED <<storage, ops>>

\* execute called with an arbitrary async function.
ExecuteFunc(t) ==
    /\ Len(ops) < MaxOps
    /\ LET r == ExecuteOn(txns, ops, t, NewOp("func", t, <<>>, <<>>, Undefined))
       IN  txns' = r.txns /\ ops' = r.ops
    /\ UNCHANGED <<storage, failures>>

\* The function handed to execute returns (r = NoResult) or throws.
FuncSettles(i, r) ==
    /\ ops[i].kind = "func"
    /\ ops[i].pc = "run"
    /\ ops' = [ops EXCEPT ![i].pc = "finished", ![i].result = r]
    /\ UNCHANGED <<storage, txns, failures>>

\* execute resumes after `await func()`: catch and finally.
OperationEnded(i) ==
    /\ ops[i].pc = "finished"
    /\ ops[i].txn # 0
    /\ LET t == ops[i].txn
           r == ops[i].result
       IN  /\ txns' = [txns EXCEPT ![t] = ExecuteFinish(txns[t], r)]
           /\ failures' = IF r.threw
                          THEN [failures EXCEPT ![t] = Append(@, r.value)]
                          ELSE failures
    /\ ops' = [ops EXCEPT ![i].pc = "ended"]
    /\ UNCHANGED storage

(***************************************************************************)
(* Entity operations.  Each is a function handed to execute; its record    *)
(* carries the arguments (a1, a2, val), the await it is suspended at (ph,  *)
(* keys), its locals (acc) and the calls it made of its callback (out).    *)
(***************************************************************************)
StoreKinds ==
    {"storeAccount", "storeCrossSigningKeys", "storeSecretStorePrivateKey",
     "storeEndToEndSession", "storeEndToEndInboundGroupSession",
     "storeEndToEndInboundGroupSessionWithheld", "storeEndToEndDeviceData",
     "storeEndToEndRoom"}

GetKinds ==
    {"getAccount", "getCrossSigningKeys", "getSecretStorePrivateKey",
     "getEndToEndSession", "getEndToEndDeviceData"}

\* The key a single-key operation reads or writes.
KeyOf(op) ==
    CASE op.kind \in {"storeAccount", "getAccount"} -> KEY_END_TO_END_ACCOUNT
      [] op.kind \in {"storeCrossSigningKeys", "getCrossSigningKeys"} ->
            KEY_CROSS_SIGNING_KEYS
      [] op.kind \in {"storeSecretStorePrivateKey", "getSecretStorePrivateKey"} ->
            KeySecretStorePrivateKey(op.a1)
      [] op.kind \in {"storeEndToEndSession", "getEndToEndSession"} ->
            KeyEndToEndSession(op.a1, op.a2)
      [] op.kind \in {"storeEndToEndInboundGroupSession",
                      "addEndToEndInboundGroupSession",
                      "getEndToEndInboundGroupSession"} ->
            KeyEndToEndInboundGroupSession(op.a1, op.a2)
      [] op.kind = "storeEndToEndInboundGroupSessionWithheld" ->
            KeyEndToEndInboundGroupSessionWithheld(op.a1, op.a2)
      [] op.kind \in {"storeEndToEndDeviceData", "getEndToEndDeviceData"} ->
            KEY_DEVICE_DATA
      [] op.kind = "storeEndToEndRoom" -> KeyEndToEndRoom(op.a1)

\* The function of an operation returns / throws.
Finish(op) == [op EXCEPT !.pc = "finished"]
Fail(op, e) == [op EXCEPT !.pc = "finished", !.result = ThrowResult(e)]
\* func(v): one call of the operation's callback.
Deliver(op, v) == [op EXCEPT !.out = Append(@, v)]

\* store*: await this._setJsonItem(key, value)
StoreStep(i) ==
    /\ ops[i].kind \in StoreKinds
    /\ ops[i].pc = "run"
    /\ storage' = SetJsonItem(storage, KeyOf(ops[i]), ops[i].val)
    /\ ops' = [ops EXCEPT ![i] = Finish(@)]
    /\ UNCHANGED <<txns, failures>>

\* get*: func(await this._getJsonItem(key))
GetStep(i) ==
    /\ ops[i].kind \in GetKinds
    /\ ops[i].pc = "run"
    /\ LET r == GetJsonItem(storage, KeyOf(ops[i]))
       IN  ops' = [ops EXCEPT ![i] = IF r.threw THEN Fail(@, r.value)
                                     ELSE Finish(Deliver(@, r.value))]
    /\ UNCHANGED <<storage, txns, failures>>

\* getEndToEndInboundGroupSession: the session, then the withheld record,
\* then func(groupSession, groupSessionWithheld).
GetGroupSessionStep(i) ==
    /\ ops[i].kind = "getEndToEndInboundGroupSession"
    /\ ops[i].pc = "run"
    /\ LET op == ops[i]
           r == GetJsonItem(storage,
                    IF op.ph = 0
                    THEN KeyEndToEndInboundGroupSession(op.a1, op.a2)
                    ELSE KeyEndToEndInboundGroupSessionWithheld(op.a1, op.a2))
       IN  ops' = [ops EXCEPT ![i] =
                      IF r.threw THEN Fail(op, r.value)
                      ELSE IF op.ph = 0 THEN [op EXCEPT !.ph = 1, !.acc = r.value]
                      ELSE Finish(Deliver(op, <<op.acc, r.value>>))]
    /\ UNCHANGED <<storage, txns, failures>>

Mut_AddWrites(existing) == TRUE

\* if (!existing)
AddWrites(existing) == ~Truthy(existing)

\* addEndToEndInboundGroupSession: read the key; if nothing truthy is there,
\* call storeEndToEndInboundGroupSession, which registers its own operation
\* on the same transaction and returns at once.
AddGroupSessionStep(i) ==
    /\ ops[i].kind = "addEndToEndInboundGroupSession"
    /\ ops[i].pc = "run"
    /\ LET op == ops[i]
           r == GetJsonItem(storage, KeyOf(op))
           nested == NewOp("storeEndToEndInboundGroupSession",
                           op.txn, op.a1, op.a2, op.val)
           e == ExecuteOn(txns, [ops EXCEPT ![i] = Finish(op)], op.txn, nested)
       IN  IF r.threw
           THEN ops' = [ops EXCEPT ![i] = Fail(op, r.value)] /\ txns' = txns
           ELSE IF ~AddWrites(r.value)
           THEN ops' = [ops EXCEPT ![i] = Finish(op)] /\ txns' = txns
           ELSE ops' = e.ops /\ txns' = e.txns
    /\ UNCHANGED <<storage, failures>>

\* An entry delivered by a listing.
Entry(senderKey, sessionId, sessionData) ==
    <<"entry", senderKey, sessionId, sessionData>>

Mut_ListingDone(op) == Finish(op)

\* func(null) after the loop of getAllEndToEndInboundGroupSessions.
ListingDone(op) == Finish(Deliver(op, Null))

\* getAllEndToEndInboundGroupSessions: list the keys, then per key decode the
\* identifiers, read the value and deliver; null after the last one.
GetAllGroupSessionsStep(i) ==
    /\ ops[i].kind = "getAllEndToEndInboundGroupSessions"
    /\ ops[i].pc = "run"
    /\ LET op == ops[i]
       IN  IF op.ph = 0
           THEN \E ks \in Orderings({k \in DOMAIN storage :
                                        StartsWith(k, INBOUND_SESSION_PREFIX)}) :
                   ops' = [ops EXCEPT ![i] =
                              IF ks = <<>> THEN ListingDone(op)
                              ELSE [op EXCEPT !.ph = 1, !.keys = ks]]
           ELSE LET k == Head(op.keys)
                    keyParts == Split(k)
                    senderKey == DecodeURIComponent(Part(keyParts, 1))
                    sessionId == DecodeURIComponent(Part(keyParts, 2))
                    r == GetJsonItem(storage, k)
                    d == Deliver([op EXCEPT !.keys = Tail(@)],
                                 Entry(senderKey.value, sessionId.value, r.value))
                IN  ops' = [ops EXCEPT ![i] =
                               IF senderKey.threw THEN Fail(op, senderKey.value)
                               ELSE IF sessionId.threw THEN Fail(op, sessionId.value)
                               ELSE IF r.threw THEN Fail(op, r.value)
                               ELSE IF d.keys = <<>> THEN ListingDone(d)
                               ELSE d]
    /\ UNCHANGED <<storage, txns, failures>>

\* getEndToEndSessions(deviceKey): list all keys, keep those under the
\* device's prefix, read each again by its rebuilt key into a map, deliver
\* the map.
GetSessionsStep(i) ==
    /\ ops[i].kind = "getEndToEndSessions"
    /\ ops[i].pc = "run"
    /\ LET op == ops[i]
       IN  IF op.ph = 0
           THEN \E ks \in Orderings({k \in DOMAIN storage :
                                  StartsWith(k, PrefixEndToEndSession(op.a1))}) :
                   ops' = [ops EXCEPT ![i] =
                              IF ks = <<>> THEN Finish(Deliver(op, <<>>))
                              ELSE [op EXCEPT !.ph = 1, !.keys = ks, !.acc = <<>>]]
           ELSE LET k == Head(op.keys)
                    sessionId == DecodeURIComponent(Part(Split(k), 2))
                    r == GetJsonItem(storage, KeyEndToEndSession(op.a1, sessionId.value))
                    d == [op EXCEPT !.keys = Tail(@),
                                    !.acc = ObjSet(@, sessionId.value, r.value)]
                IN  ops' = [ops EXCEPT ![i] =
                               IF sessionId.threw THEN Fail(op, sessionId.value)
                               ELSE IF r.threw THEN Fail(op, r.value)
                               ELSE IF d.keys = <<>> THEN Finish(Deliver(d, d.acc))
                               ELSE d]
    /\ UNCHANGED <<storage, txns, failures>>

\* getEndToEndRooms: the keys under ROOMS_PREFIX, each read into a map under
\* the rest of its key, then the map is delivered.
GetRoomsStep(i) ==
    /\ ops[i].kind = "getEndToEndRooms"
    /\ ops[i].pc = "run"
    /\ LET op == ops[i]
       IN  IF op.ph = 0
           THEN \E ks \in Orderings({k \in DOMAIN storage :
                                        StartsWith(k, ROOMS_PREFIX)}) :
                   ops' = [ops EXCEPT ![i] =
                              IF ks = <<>> THEN Finish(Deliver(op, <<>>))
                              ELSE [op EXCEPT !.ph = 1, !.keys = ks, !.acc = <<>>]]
           ELSE LET k == Head(op.keys)
                    roomId == Slice(k, Len(ROOMS_PREFIX))
                    r == GetJsonItem(storage, k)
                    d == [op EXCEPT !.keys = Tail(@),
                                    !.acc = ObjSet(@, roomId, r.value)]
                IN  ops' = [ops EXCEPT ![i] =
                               IF r.threw THEN Fail(op, r.value)
                               ELSE IF d.keys = <<>> THEN Finish(Deliver(d, d.acc))
                               ELSE d]
    /\ UNCHANGED <<storage, txns, failures>>

Mut_DeleteAllDataKeys(st) ==
    {k \in DOMAIN st : StartsWith(k, SubSeq(E2E_PREFIX, 1, Len(E2E_PREFIX) - 1))}

\* (await this.storage.getAllKeys()).filter((k) => k.startsWith(E2E_PREFIX))
DeleteAllDataKeys(st) == {k \in DOMAIN st : StartsWith(k, E2E_PREFIX)}

\* deleteAllData (no transaction): the keys under E2E_PREFIX, removed one
\* by one; the returned promise resolves after the last removal.
DeleteAllDataStep(i) ==
    /\ ops[i].kind = "deleteAllData"
    /\ ops[i].pc = "run"
    /\ LET op == ops[i]
       IN  IF op.ph = 0
           THEN /\ \E ks \in Orderings(DeleteAllDataKeys(storage)) :
                      ops' = [ops EXCEPT ![i] =
                                 IF ks = <<>> THEN [op EXCEPT !.pc = "ended"]
                                 ELSE [op EXCEPT !.ph = 1, !.keys = ks]]
                /\ storage' = storage
           ELSE /\ storage' = RemoveItem(storage, Head(op.keys))
                /\ ops' = [ops EXCEPT ![i] =
                              IF Tail(op.keys) = <<>>
                              THEN [op EXCEPT !.keys = <<>>, !.pc = "ended"]
                              ELSE [op EXCEPT !.keys = Tail(@)]]
    /\ UNCHANGED <<txns, failures>>

(***************************************************************************)
(* A caller that awaits each call before making the next:                  *)
(*   await store.doTxn(mode, stores, (txn) => store.op(..., txn))          *)
(* or, for a method without a transaction, `await store.op(...)`.          *)
(***************************************************************************)
\* Every call the caller made has completed; the caller cannot wait for a
\* method the code called without awaiting it (txn = -1).
Quiescent ==
    \A i \in DOMAIN ops : ops[i].txn # -1 => ops[i].pc \in {"ended", "refused"}

Calls == Len(txns) + Cardinality({i \in DOMAIN ops : ops[i].txn = 0})

Tpl(kind, a1, a2, val) == NewOp(kind, 0, a1, a2, val)

\* doTxn whose callback issues one entity operation on the new transaction.
Call(op, max) ==
    /\ Quiescent
    /\ Calls < max
    /\ LET txs == Append(txns, NewTransaction)
           e == ExecuteOn(txs, ops, Len(txs), [op EXCEPT !.txn = Len(txs)])
       IN  txns' = e.txns /\ ops' = e.ops
    /\ failures' = Append(failures, <<>>)
    /\ UNCHANGED storage

\* A method that takes no transaction, called directly.
CallDirect(op, max) ==
    /\ Quiescent
    /\ Calls < max
    /\ ops' = Append(ops, op)
    /\ UNCHANGED <<storage, txns, failures>>

\* Another user of the same backend writes one of its own keys.
ForeignSetItem(key, text) ==
    /\ Quiescent
    /\ storage' = SetItem(storage, key, text)
    /\ UNCHANGED <<txns, ops, failures>>

Init ==
    /\ storage = <<>>
    /\ txns = <<>>
    /\ ops = <<>>
    /\ failures = <<>>

(***************************************************************************)
(* Spec: callers open transactions and hand arbitrary functions to         *)
(* execute, at any time and in any order.                                  *)
(***************************************************************************)
Next ==
    \/ DoTxn
    \/ \E t \in DOMAIN txns : ExecuteFunc(t)
    \/ \E i \in DOMAIN ops, r \in {NoResult} \cup {ThrowResult(e) : e \in Thrown} :
          FuncSettles(i, r)
    \/ \E i \in DOMAIN ops : OperationEnded(i)

Spec == Init /\ [][Next]_vars

OpsOf(t) == {i \in DOMAIN ops : ops[i].txn = t}

\* C1 (as claimed): the completion signal of a context has fired only if
\* every operation the caller issued against it through execute has finished,
\* whenever the operation was issued.
C1_SignalAfterEveryIssuedOp ==
    \A t \in DOMAIN txns :
        Settled(txns[t]) => \A i \in OpsOf(t) : ops[i].pc = "ended"

\* C1 (amended): the completion signal of a context has fired only if the
\* in-flight counter is zero and every operation that execute started on it
\* has finished; an operation issued after the context settled is refused.
C1_SignalAfterEveryStartedOp ==
    \A t \in DOMAIN txns :
        Settled(txns[t]) =>
            /\ txns[t].numOps = 0
            /\ \A i \in OpsOf(t) : ops[i].pc \in {"ended", "refused"}

\* C1 witness: a context settled after two of its operations ended, one of
\* them issued after the other had finished its function.
C1_Witness ==
    \E t \in DOMAIN txns :
        /\ Settled(txns[t])
        /\ Cardinality({i \in OpsOf(t) : ops[i].pc = "ended"}) >= 2

\* C2 (as claimed): a context is settled exactly when its counter has returned
\* to zero, Rejected if at least one of its operations failed, whatever the
\* value thrown, and Resolved if and only if none failed.
C2_RejectedIffSomeOpFailed ==
    \A t \in DOMAIN txns :
        /\ Settled(txns[t]) <=>
              (txns[t].numOps = 0 /\ \E i \in OpsOf(t) : ops[i].pc = "ended")
        /\ txns[t].promise = "rejected" <=>
              (Settled(txns[t]) /\ failures[t] # <<>>)
        /\ txns[t].promise = "resolved" <=>
              (Settled(txns[t]) /\ failures[t] = <<>>)

\* C3 (as claimed): a context that is Rejected carries the error of the
\* operation that failed first; later errors never replace it.
C3_RejectedWithFirstError ==
    \A t \in DOMAIN txns :
        txns[t].promise = "rejected" => txns[t].reason = failures[t][1]

\* C4: Settled is terminal.  In every step a settled context keeps its
\* counter, its recorded error and its outcome; an execute call on it adds an
\* operation that is refused, never runs and touches nothing in the backend.
C4_SettledIsTerminal ==
    [][\A t \in DOMAIN txns :
          Settled(txns[t]) =>
              /\ txns'[t] = txns[t]
              /\ \A i \in OpsOf(t) : ops'[i] = ops[i]
              /\ \A i \in DOMAIN ops' :
                    (i \notin DOMAIN ops /\ ops'[i].txn = t) =>
                        /\ ops'[i].pc = "refused"
                        /\ ops'[i].out = <<>>
                        /\ storage' = storage]_vars

\* C4 witness: execute has been called on a settled context.
C4_Witness ==
    \E i \in DOMAIN ops :
        /\ ops[i].pc = "refused"
        /\ Settled(txns[ops[i].txn])

(***************************************************************************)
(* SpecOverwrite: a caller that makes up to MaxCalls awaited calls, each a *)
(* store or a read of one of the entity kinds with the overwrite policy.   *)
(***************************************************************************)
Data == {Obj("some-session"), Obj("another-session")}
Pickles == {Str("pickle-1"), Str("pickle-2")}

OverwriteStores ==
    {Tpl("storeAccount", <<>>, <<>>, v) : v \in Pickles}
    \cup {Tpl(k, <<>>, <<>>, v) :
            k \in {"storeCrossSigningKeys", "storeEndToEndDeviceData"}, v \in Data}
    \cup {Tpl(k, <<"m">>, <<>>, v) :
            k \in {"storeSecretStorePrivateKey", "storeEndToEndRoom"}, v \in Data}
    \cup {Tpl(k, <<"a">>, <<"b">>, v) :
            k \in {"storeEndToEndSession", "storeEndToEndInboundGroupSession",
                   "storeEndToEndInboundGroupSessionWithheld"}, v \in Data}

OverwriteReads ==
    {Tpl(k, <<>>, <<>>, Undefined) :
        k \in {"getAccount", "getCrossSigningKeys", "getEndToEndDeviceData",
               "getEndToEndRooms"}}
    \cup {Tpl("getSecretStorePrivateKey", <<"m">>, <<>>, Undefined)}
    \cup {Tpl(k, <<"a">>, <<"b">>, Undefined) :
            k \in {"getEndToEndSession", "getEndToEndInboundGroupSession"}}

NextOverwrite ==
    \/ \E op \in OverwriteStores \cup OverwriteReads : Call(op, MaxCalls)
    \/ \E i \in DOMAIN ops : StoreStep(i)
    \/ \E i \in DOMAIN ops : GetStep(i)
    \/ \E i \in DOMAIN ops : GetGroupSessionStep(i)
    \/ \E i \in DOMAIN ops : GetRoomsStep(i)
    \/ \E i \in DOMAIN ops : OperationEnded(i)

SpecOverwrite == Init /\ [][NextOverwrite]_vars

\* The read operation that returns what store operation s wrote.
ReadKindOf(s) ==
    CASE s.kind = "storeAccount" -> "getAccount"
      [] s.kind = "storeCrossSigningKeys" -> "getCrossSigningKeys"
      [] s.kind = "storeSecretStorePrivateKey" -> "getSecretStorePrivateKey"
      [] s.kind = "storeEndToEndSession" -> "getEndToEndSession"
      [] s.kind = "storeEndToEndInboundGroupSession" -> "getEndToEndInboundGroupSession"
      [] s.kind = "storeEndToEndInboundGroupSessionWithheld" ->
            "getEndToEndInboundGroupSession"
      [] s.kind = "storeEndToEndDeviceData" -> "getEndToEndDeviceData"
      [] s.kind = "storeEndToEndRoom" -> "getEndToEndRooms"

SameEntity(s1, s2) == s1.kind = s2.kind /\ s1.a1 = s2.a1 /\ s1.a2 = s2.a2

\* Operation k read the entity that the store operation j < k wrote, and no
\* store in between wrote that entity again.
ReadsStore(k, j) ==
    /\ j < k
    /\ ops[j].kind \in StoreKinds
    /\ ops[k].kind = ReadKindOf(ops[j])
    /\ ops[k].kind = "getEndToEndRooms" \/ (ops[k].a1 = ops[j].a1 /\ ops[k].a2 = ops[j].a2)
    /\ \A x \in (j + 1)..(k - 1) : ~SameEntity(ops[x], ops[j])

\* What read operation r handed to its callback for the entity store s wrote.
Got(r, s) ==
    IF Len(r.out) # 1 THEN Undefined
    ELSE CASE s.kind = "storeEndToEndInboundGroupSession" -> r.out[1][1]
           [] s.kind = "storeEndToEndInboundGroupSessionWithheld" -> r.out[1][2]
           [] s.kind = "storeEndToEndRoom" ->
                 IF s.a1 \in DOMAIN r.out[1] THEN r.out[1][s.a1] ELSE Undefined
           [] OTHER -> r.out[1]

Done(op) == op.pc \in {"finished", "ended"}

\* C5: for every entity kind with the overwrite policy, a read that follows
\* awaited stores under the same identifiers returns the value of the last
\* of them (V2 after V1 then V2).
C5_ReadReturnsLastStored ==
    \A k \in DOMAIN ops :
        Done(ops[k]) =>
            \A j \in DOMAIN ops :
                ReadsStore(k, j) => Got(ops[k], ops[j]) = ops[j].val

\* C5 witness: V1 stored, then a different V2 stored under the same
\* identifiers, then a read that returned V2.
C5_Witness ==
    \E h, j, k \in DOMAIN ops :
        /\ h < j
        /\ SameEntity(ops[h], ops[j])
        /\ ops[h].val # ops[j].val
        /\ ReadsStore(k, j)
        /\ ops[k].pc = "ended"
        /\ Got(ops[k], ops[j]) = ops[j].val

(***************************************************************************)
(* SpecGroup: up to MaxCalls awaited calls that add, store, read and list  *)
(* inbound group sessions whose identifiers contain "/" and "%".           *)
(***************************************************************************)
GroupIds ==
    { <<<<"a", "/", "b">>, <<"c">>>>,
      <<<<"a">>, <<"b", "/", "c">>>>,
      <<<<"a", "%", "2", "F", "b">>, <<>>>> }

GroupMenu ==
    {Tpl(k, id[1], id[2], v) :
        k \in {"storeEndToEndInboundGroupSession", "addEndToEndInboundGroupSession"},
        id \in GroupIds, v \in Data}
    \cup {Tpl("getEndToEndInboundGroupSession", id[1], id[2], Undefined) :
            id \in GroupIds}
    \cup {Tpl("getAllEndToEndInboundGroupSessions", <<>>, <<>>, Undefined)}

NextGroup ==
    \/ \E op \in GroupMenu : Call(op, MaxCalls)
    \/ \E i \in DOMAIN ops : StoreStep(i)
    \/ \E i \in DOMAIN ops : AddGroupSessionStep(i)
    \/ \E i \in DOMAIN ops : GetGroupSessionStep(i)
    \/ \E i \in DOMAIN ops : GetAllGroupSessionsStep(i)
    \/ \E i \in DOMAIN ops : OperationEnded(i)

SpecGroup == Init /\ [][NextGroup]_vars

SameIds(o1, o2) == o1.a1 = o2.a1 /\ o1.a2 = o2.a2

IsGroupStore(op) == op.kind = "storeEndToEndInboundGroupSession"
IsGroupAdd(op) == op.kind = "addEndToEndInboundGroupSession"

\* The first operation of its transaction, i.e. one the caller issued.
TopLevel(i) == \A h \in 1..(i - 1) : ops[h].txn # ops[i].txn

\* The operations that the function of operation j registered itself.
Nested(j) == {n \in DOMAIN ops : n > j /\ ops[n].txn = ops[j].txn}

\* C6: addEndToEndInboundGroupSession is write-once.  An add that follows an
\* awaited add or store under the same identifiers performs no write, and
\* after adds only, a read returns the data of the first add.
C6_AddIsWriteOnce ==
    \A j \in DOMAIN ops :
        (IsGroupAdd(ops[j]) /\ Done(ops[j])) =>
            LET earlier == {h \in 1..(j - 1) :
                              /\ IsGroupAdd(ops[h]) \/ IsGroupStore(ops[h])
                              /\ SameIds(ops[h], ops[j])}
            IN  /\ earlier # {} => Nested(j) = {}
                /\ earlier = {} =>
                      \A k \in DOMAIN ops :
                          ( /\ k > j
                            /\ ops[k].kind = "getEndToEndInboundGroupSession"
                            /\ SameIds(ops[k], ops[j])
                            /\ Done(ops[k])
                            /\ \A x \in (j + 1)..(k - 1) :
                                  (IsGroupStore(ops[x]) /\ SameIds(ops[x], ops[j]))
                                      => ~TopLevel(x) )
                          => (Len(ops[k].out) = 1 /\ ops[k].out[1][1] = ops[j].val)

\* C6 witness: V1 added, a different V2 added under the same identifiers,
\* and a read that returned V1.
C6_Witness ==
    \E h, j, k \in DOMAIN ops :
        /\ h < j /\ j < k
        /\ IsGroupAdd(ops[h]) /\ IsGroupAdd(ops[j])
        /\ SameIds(ops[h], ops[j]) /\ SameIds(ops[k], ops[j])
        /\ ops[h].val # ops[j].val
        /\ Nested(h) # {} /\ Nested(j) = {}
        /\ ops[k].kind = "getEndToEndInboundGroupSession"
        /\ ops[k].pc = "ended"
        /\ ops[k].out[1][1] = ops[h].val

Range(f) == {f[x] : x \in DOMAIN f}

\* Operation j < k is the write that determines the group session under its
\* identifiers when operation k runs.
LastGroupStore(j, k) ==
    /\ j < k
    /\ IsGroupStore(ops[j])
    /\ \A x \in (j + 1)..(k - 1) : ~(IsGroupStore(ops[x]) /\ SameIds(ops[x], ops[j]))

\* C7: identifiers survive the key encoding.  A listing delivers, for every
\* stored group session, an entry with exactly the original sender key and
\* session id (also when they contain "/") and the stored data, and a read
\* with the original identifiers returns that data.
C7_ListingRecoversIdentifiers ==
    \A k \in DOMAIN ops :
        Done(ops[k]) =>
            \A j \in DOMAIN ops :
                LastGroupStore(j, k) =>
                    /\ ops[k].kind = "getAllEndToEndInboundGroupSessions" =>
                          Entry(ops[j].a1, ops[j].a2, ops[j].val) \in Range(ops[k].out)
                    /\ (ops[k].kind = "getEndToEndInboundGroupSession"
                            /\ SameIds(ops[k], ops[j])) =>
                          (Len(ops[k].out) = 1 /\ ops[k].out[1][1] = ops[j].val)

\* C7 witness: two group sessions whose unescaped keys would coincide are
\* stored and a listing has delivered both with their own identifiers.
C7_Witness ==
    \E h, j, k \in DOMAIN ops :
        /\ LastGroupStore(h, k) /\ LastGroupStore(j, k)
        /\ ops[h].a1 = <<"a", "/", "b">> /\ ops[j].a1 = <<"a">>
        /\ ops[h].val # ops[j].val
        /\ ops[k].kind = "getAllEndToEndInboundGroupSessions"
        /\ ops[k].pc = "ended"
        /\ Entry(ops[h].a1, ops[h].a2, ops[h].val) \in Range(ops[k].out)
        /\ Entry(ops[j].a1, ops[j].a2, ops[j].val) \in Range(ops[k].out)

(***************************************************************************)
(* SpecSessions: up to MaxCalls awaited calls that store sessions of       *)
(* several devices and list the sessions of one device.                    *)
(***************************************************************************)
DeviceKeys == {<<"a">>, <<"a", "b">>, <<"a", "/", "b">>}
SessionIds == {<<"s">>, <<"b", "/", "s">>}

SessionsMenu ==
    {Tpl("storeEndToEndSession", d, sid, v) :
        d \in DeviceKeys, sid \in SessionIds, v \in Data}
    \cup {Tpl("getEndToEndSessions", d, <<>>, Undefined) : d \in DeviceKeys}

NextSessions ==
    \/ \E op \in SessionsMenu : Call(op, MaxCalls)
    \/ \E i \in DOMAIN ops : StoreStep(i)
    \/ \E i \in DOMAIN ops : GetSessionsStep(i)
    \/ \E i \in DOMAIN ops : OperationEnded(i)

SpecSessions == Init /\ [][NextSessions]_vars

\* Operation j < k is the last store of a session of device d before k.
LastSessionStore(j, k, d) ==
    /\ j < k
    /\ ops[j].kind = "storeEndToEndSession"
    /\ ops[j].a1 = d
    /\ \A x \in (j + 1)..(k - 1) :
          ~(ops[x].kind = "storeEndToEndSession" /\ SameIds(ops[x], ops[j]))

\* The sessions stored under device d when operation k runs, by session id.
SessionsBefore(k, d) ==
    LET last == {j \in DOMAIN ops : LastSessionStore(j, k, d)}
    IN  [sid \in {ops[j].a2 : j \in last} |->
            ops[CHOOSE j \in last : ops[j].a2 = sid].val]

\* C8: getEndToEndSessions(D) delivers one map that holds exactly the
\* sessions stored under device D, under their original session ids, and
\* no session of another device, also when another device key extends D or
\* an identifier contains "/".
C8_SessionsOfDeviceExactly ==
    \A k \in DOMAIN ops :
        (ops[k].kind = "getEndToEndSessions" /\ Done(ops[k])) =>
            ops[k].out = <<SessionsBefore(k, ops[k].a1)>>

\* C8 witness: device "a" and a device whose key extends "a" both have a
\* session, one under an id with "/", and the listing for "a" has returned.
C8_Witness ==
    \E h, j, k \in DOMAIN ops :
        /\ LastSessionStore(h, k, <<"a">>)
        /\ ops[h].a2 = <<"b", "/", "s">>
        /\ j < k
        /\ ops[j].kind = "storeEndToEndSession"
        /\ ops[j].a1 \in {<<"a", "b">>, <<"a", "/", "b">>}
        /\ ops[k].kind = "getEndToEndSessions"
        /\ ops[k].a1 = <<"a">>
        /\ ops[k].pc = "ended"
        /\ DOMAIN ops[k].out[1] = {<<"b", "/", "s">>}

(***************************************************************************)
(* SpecListAll: up to MaxListCalls awaited calls that store group sessions *)
(* and withheld records and list all group sessions.                       *)
(***************************************************************************)
Withheld == Obj("withheld")

ListAllMenu ==
    {Tpl("storeEndToEndInboundGroupSession", id[1], id[2], v) :
        id \in GroupIds, v \in Data}
    \cup {Tpl("storeEndToEndInboundGroupSessionWithheld", id[1], id[2], Withheld) :
            id \in GroupIds}
    \cup {Tpl("getAllEndToEndInboundGroupSessions", <<>>, <<>>, Undefined)}

NextListAll ==
    \/ \E op \in ListAllMenu : Call(op, MaxListCalls)
    \/ \E i \in DOMAIN ops : StoreStep(i)
    \/ \E i \in DOMAIN ops : GetAllGroupSessionsStep(i)
    \/ \E i \in DOMAIN ops : OperationEnded(i)

SpecListAll == Init /\ [][NextListAll]_vars

\* The group sessions stored when operation k runs, as listing entries.
GroupEntriesBefore(k) ==
    {Entry(ops[j].a1, ops[j].a2, ops[j].val) :
        j \in {x \in DOMAIN ops : LastGroupStore(x, k)}}

\* C9: with N group sessions stored, a finished listing has called the
\* callback exactly N+1 times: N entries, set-equal to the stored ones, and
\* then null once; null is never delivered before an entry.
C9_EntriesThenNull ==
    \A k \in DOMAIN ops :
        ops[k].kind = "getAllEndToEndInboundGroupSessions" =>
            LET out == ops[k].out
                n == Cardinality(GroupEntriesBefore(k))
            IN  /\ \A x \in 1..(Len(out) - 1) : out[x] # Null
                /\ ops[k].pc = "run" => Null \notin Range(out)
                /\ Done(ops[k]) =>
                      /\ Len(out) = n + 1
                      /\ out[n + 1] = Null
                      /\ {out[x] : x \in 1..n} = GroupEntriesBefore(k)

\* C9 witness: three group sessions are stored and the listing has made its
\* four deliveries.
C9_Witness ==
    \E k \in DOMAIN ops :
        /\ ops[k].kind = "getAllEndToEndInboundGroupSessions"
        /\ ops[k].pc = "ended"
        /\ Cardinality(GroupEntriesBefore(k)) = 3
        /\ Len(ops[k].out) = 4

(***************************************************************************)
(* SpecDelete: up to MaxCalls awaited calls that store entities, read a    *)
(* session or delete all data, on a backend that another user writes its   *)
(* own keys to between the calls.                                          *)
(***************************************************************************)
ForeignKeys ==
    { <<"s", "o", "m", "e", "O", "t", "h", "e", "r", "D", "a", "t", "a">>,
      <<"c", "r", "y", "p", "t", "o">>,
      E2E_PREFIX \o <<"x">> }

ForeignTexts == {<<"preciousData">>, <<"moreData">>}

DeleteMenu ==
    { Tpl("storeEndToEndSession", <<"a">>, <<"s">>, Obj("some-session")),
      Tpl("storeAccount", <<>>, <<>>, Str("pickle-1")),
      Tpl("storeEndToEndRoom", <<"m">>, <<>>, Obj("some-session")),
      Tpl("getEndToEndSession", <<"a">>, <<"s">>, Undefined) }

NextDelete ==
    \/ \E op \in DeleteMenu : Call(op, MaxCalls)
    \/ CallDirect(Tpl("deleteAllData", <<>>, <<>>, Undefined), MaxCalls)
    \/ \E k \in ForeignKeys, t \in ForeignTexts : ForeignSetItem(k, t)
    \/ \E i \in DOMAIN ops : StoreStep(i)
    \/ \E i \in DOMAIN ops : GetStep(i)
    \/ \E i \in DOMAIN ops : DeleteAllDataStep(i)
    \/ \E i \in DOMAIN ops : OperationEnded(i)

SpecDelete == Init /\ [][NextDelete]_vars

UnderRoot(key) == StartsWith(key, E2E_PREFIX)

\* C10: no step of deleteAllData creates, removes or changes a key that does
\* not begin with "crypto.", and when deleteAllData completes (nothing else
\* running) no key beginning with "crypto." is left.
C10_DeleteAllDataOnlyUnderRoot ==
    [][\A i \in DOMAIN ops :
          (ops[i].kind = "deleteAllData" /\ ops'[i] # ops[i]) =>
              /\ \A k \in DOMAIN storage \cup DOMAIN storage' :
                    ~UnderRoot(k) =>
                        /\ k \in DOMAIN storage
                        /\ k \in DOMAIN storage'
                        /\ storage'[k] = storage[k]
              /\ ops'[i].pc = "ended" =>
                    \A k \in DOMAIN storage' : ~UnderRoot(k)]_vars

\* C10 witness: entity data and foreign keys were stored, deleteAllData has
\* completed, and the foreign key "crypto" (no dot) is still there.
C10_Witness ==
    \E i \in DOMAIN ops :
        /\ ops[i].kind = "deleteAllData"
        /\ ops[i].pc = "ended"
        /\ ops[i].ph = 1
        /\ \E j \in 1..(i - 1) : ops[j].kind \in StoreKinds
        /\ <<"c", "r", "y", "p", "t", "o">> \in DOMAIN storage
        /\ \A k \in DOMAIN storage : ~UnderRoot(k)

(***************************************************************************)
(* Methods that take no transaction and return a promise.  Their records   *)
(* have txn = 0 when a caller awaits them and txn = -1 when the code calls *)
(* them without awaiting the result.  They go from "run" to "ended": the   *)
(* value the promise resolves with is appended to out, the error it        *)
(* rejects with is the result.                                             *)
(***************************************************************************)
Return(op, v) == [op EXCEPT !.pc = "ended", !.out = Append(@, v)]
ReturnVoid(op) == [op EXCEPT !.pc = "ended"]
Reject(op, e) == [op EXCEPT !.pc = "ended", !.result = ThrowResult(e)]

\* String(v) of a template literal or of encodeURIComponent's argument.
StringOf(v) ==
    IF v = Undefined THEN <<"u", "n", "d", "e", "f", "i", "n", "e", "d">> ELSE v

Mut_CountKeys(st, prefix) == Cardinality(DOMAIN st)

\* keys.filter((k) => k.startsWith(prefix)).length
CountKeys(st, prefix) ==
    Cardinality({k \in DOMAIN st : StartsWith(k, prefix)})

\* countEndToEndSessions: func(count) inside a transaction.
CountSessionsStep(i) ==
    /\ ops[i].kind = "countEndToEndSessions"
    /\ ops[i].pc = "run"
    /\ ops' = [ops EXCEPT ![i] =
                  Finish(Deliver(@, CountKeys(storage, END_TO_END_SESSION_PREFIX)))]
    /\ UNCHANGED <<storage, txns, failures>>

\* countEndToEndInboundGroupSessions: returns the count.
CountGroupSessionsStep(i) ==
    /\ ops[i].kind = "countEndToEndInboundGroupSessions"
    /\ ops[i].pc = "run"
    /\ ops' = [ops EXCEPT ![i] = Return(@, CountKeys(storage, INBOUND_SESSION_PREFIX))]
    /\ UNCHANGED <<storage, txns, failures>>

Mut_SkipsPair(p) == FALSE

\* if (deviceKey === undefined || sessionId === undefined) continue;
SkipsPair(p) == p[1] = Undefined \/ p[2] = Undefined

\* deleteEndToEndSessionsBatch(val): ph pairs of the list are behind it.  A
\* step is the removeItem of the next pair with both components, and the
\* loop up to the next removeItem or to the end of the list.
DeleteSessionsBatchStep(i) ==
    /\ ops[i].kind = "deleteEndToEndSessionsBatch"
    /\ ops[i].pc = "run"
    /\ LET op == ops[i]
           todo == {x \in (op.ph + 1)..Len(op.val) : ~SkipsPair(op.val[x])}
       IN  IF todo = {}
           THEN /\ storage' = storage
                /\ ops' = [ops EXCEPT ![i] = ReturnVoid(op)]
           ELSE LET n == CHOOSE x \in todo : \A y \in todo : x <= y
                IN  /\ storage' = RemoveItem(storage,
                                     KeyEndToEndSession(StringOf(op.val[n][1]),
                                                        StringOf(op.val[n][2])))
                    /\ ops' = [ops EXCEPT ![i] =
                                  IF todo = {n} THEN ReturnVoid([op EXCEPT !.ph = n])
                                  ELSE [op EXCEPT !.ph = n]]
    /\ UNCHANGED <<txns, failures>>

Mut_DeleteGroupSessionsBatchStep(i) ==
    /\ ops[i].kind = "deleteEndToEndInboundGroupSessionsBatch"
    /\ ops[i].pc = "run"
    /\ LET op == ops[i]
           n == op.ph + 1
       IN  IF n > Len(op.val)
           THEN /\ storage' = storage
                /\ ops' = [ops EXCEPT ![i] = ReturnVoid(op)]
           ELSE /\ storage' = RemoveItem(
                                 RemoveItem(storage,
                                     KeyEndToEndInboundGroupSession(
                                         StringOf(op.val[n][1]), StringOf(op.val[n][2]))),
                                 KEY_SESSIONS_NEEDING_BACKUP)
                /\ ops' = [ops EXCEPT ![i] =
                              IF n = Len(op.val) THEN ReturnVoid([op EXCEPT !.ph = n])
                              ELSE [op EXCEPT !.ph = n]]
    /\ UNCHANGED <<txns, failures>>

\* deleteEndToEndInboundGroupSessionsBatch(val): one removeItem per pair.
DeleteGroupSessionsBatchStep(i) ==
    /\ ops[i].kind = "deleteEndToEndInboundGroupSessionsBatch"
    /\ ops[i].pc = "run"
    /\ LET op == ops[i]
           n == op.ph + 1
       IN  IF n > Len(op.val)
           THEN /\ storage' = storage
                /\ ops' = [ops EXCEPT ![i] = ReturnVoid(op)]
           ELSE /\ storage' = RemoveItem(storage,
                                 KeyEndToEndInboundGroupSession(
                                     StringOf(op.val[n][1]), StringOf(op.val[n][2])))
                /\ ops' = [ops EXCEPT ![i] =
                              IF n = Len(op.val) THEN ReturnVoid([op EXCEPT !.ph = n])
                              ELSE [op EXCEPT !.ph = n]]
    /\ UNCHANGED <<txns, failures>>

(***************************************************************************)
(* SpecCount: up to MaxListCalls awaited calls that store and delete       *)
(* sessions, group sessions and withheld records and count them.           *)
(***************************************************************************)
SessionPairs == { <<<<"a">>, <<"b", "/", "s">>>>, <<<<"a", "/", "b">>, <<"s">>>> }
GroupPairs == { <<<<"a", "/", "b">>, <<"c">>>>, <<<<"a">>, <<"b", "/", "c">>>> }

CountMenu ==
    {Tpl("storeEndToEndSession", p[1], p[2], Obj("some-session")) : p \in SessionPairs}
    \cup {Tpl("storeEndToEndInboundGroupSession", p[1], p[2], Obj("some-session")) :
            p \in GroupPairs}
    \cup {Tpl("storeEndToEndInboundGroupSessionWithheld", <<"a">>, <<"b", "/", "c">>,
              Withheld)}
    \cup {Tpl("countEndToEndSessions", <<>>, <<>>, Undefined)}

CountDirectMenu ==
    {Tpl("deleteEndToEndSessionsBatch", <<>>, <<>>, l) :
        l \in { <<<<<<"a">>, <<"b", "/", "s">>>>>>,
                <<<<<<"a", "/", "b">>, <<"s">>>>, <<<<"a">>, <<"b", "/", "s">>>>>> }}
    \cup {Tpl("deleteEndToEndInboundGroupSessionsBatch", <<>>, <<>>,
              <<<<<<"a">>, <<"b", "/", "c">>>>>>)}
    \cup {Tpl(k, <<>>, <<>>, Undefined) :
            k \in {"deleteAllData", "countEndToEndInboundGroupSessions"}}

NextCount ==
    \/ \E op \in CountMenu : Call(op, MaxListCalls)
    \/ \E op \in CountDirectMenu : CallDirect(op, MaxListCalls)
    \/ \E i \in DOMAIN ops : StoreStep(i)
    \/ \E i \in DOMAIN ops : CountSessionsStep(i)
    \/ \E i \in DOMAIN ops : CountGroupSessionsStep(i)
    \/ \E i \in DOMAIN ops : DeleteSessionsBatchStep(i)
    \/ \E i \in DOMAIN ops : DeleteGroupSessionsBatchStep(i)
    \/ \E i \in DOMAIN ops : DeleteAllDataStep(i)
    \/ \E i \in DOMAIN ops : OperationEnded(i)

SpecCount == Init /\ [][NextCount]_vars

\* Operation x deletes the pair p of the kind that storeKind stores.
DeletesPair(x, p, storeKind) ==
    \/ ops[x].kind = "deleteAllData"
    \/ /\ storeKind = "storeEndToEndSession"
       /\ ops[x].kind = "deleteEndToEndSessionsBatch"
       /\ p \in Range(ops[x].val)
    \/ /\ storeKind = "storeEndToEndInboundGroupSession"
       /\ ops[x].kind = "deleteEndToEndInboundGroupSessionsBatch"
       /\ p \in Range(ops[x].val)

\* The pairs stored by storeKind and not deleted since, when operation k runs.
PairsBefore(k, storeKind) ==
    { <<ops[j].a1, ops[j].a2>> :
        j \in {x \in 1..(k - 1) :
                 /\ ops[x].kind = storeKind
                 /\ \A y \in (x + 1)..(k - 1) :
                       ~DeletesPair(y, <<ops[x].a1, ops[x].a2>>, storeKind)} }

\* C11: after completed stores and deletes, countEndToEndSessions delivers
\* the number of distinct (device key, session id) pairs stored and
\* countEndToEndInboundGroupSessions returns the number of distinct (sender
\* key, session id) pairs stored: a pair stored twice counts once, in any
\* insertion order, and records of other kinds are not counted.
C11_CountsDistinctPairs ==
    \A k \in DOMAIN ops :
        Done(ops[k]) =>
            /\ ops[k].kind = "countEndToEndSessions" =>
                  ops[k].out =
                      <<Cardinality(PairsBefore(k, "storeEndToEndSession"))>>
            /\ ops[k].kind = "countEndToEndInboundGroupSessions" =>
                  ops[k].out =
                      <<Cardinality(PairsBefore(k, "storeEndToEndInboundGroupSession"))>>

\* C11 witness: three stores of sessions, two of them of the same pair, and
\* a count that delivered 2.
C11_Witness ==
    \E k \in DOMAIN ops :
        /\ ops[k].kind = "countEndToEndSessions"
        /\ ops[k].pc = "ended"
        /\ ops[k].out = <<2>>
        /\ Cardinality({j \in 1..(k - 1) : ops[j].kind = "storeEndToEndSession"}) = 3

(***************************************************************************)
(* The backup-membership set: one JSON object under                        *)
(* KEY_SESSIONS_NEEDING_BACKUP whose property names are the members.  The  *)
(* object is the sequence of its property names in insertion order, which  *)
(* is the order of Object.keys and survives JSON.                          *)
(***************************************************************************)
\* encodeURIComponent(session.senderKey) + "/" + encodeURIComponent(session.sessionId)
MemberKey(session) ==
    EncodeURIComponent(session[1]) \o <<"/">> \o EncodeURIComponent(session[2])

\* (await this._getJsonItem(KEY_SESSIONS_NEEDING_BACKUP)) || {}
OrEmptyObject(v) == IF Truthy(v) THEN v[2] ELSE <<>>

\* sessionsNeedingBackup[key] = true, for every session of the list.
RECURSIVE MarkAll(_, _)
MarkAll(obj, sessions) ==
    IF sessions = <<>> THEN obj
    ELSE LET key == MemberKey(Head(sessions))
         IN  MarkAll(IF key \in Range(obj) THEN obj ELSE Append(obj, key),
                     Tail(sessions))

Mut_UnmarkAll(obj, sessions) == <<>>

\* delete sessionsNeedingBackup[key], for every session of the list.
RECURSIVE UnmarkAll(_, _)
UnmarkAll(obj, sessions) ==
    IF sessions = <<>> THEN obj
    ELSE LET key == MemberKey(Head(sessions))
             Keep(k) == k # key
         IN  UnmarkAll(SelectSeq(obj, Keep), Tail(sessions))

\* markSessionsNeedingBackup(val): read the object, set the properties,
\* write it back.
MarkSessionsStep(i) ==
    /\ ops[i].kind = "markSessionsNeedingBackup"
    /\ ops[i].pc = "run"
    /\ LET op == ops[i]
           r == GetJsonItem(storage, KEY_SESSIONS_NEEDING_BACKUP)
       IN  IF op.ph = 0
           THEN /\ storage' = storage
                /\ ops' = [ops EXCEPT ![i] =
                              IF r.threw THEN Reject(op, r.value)
                              ELSE [op EXCEPT !.ph = 1,
                                        !.acc = MarkAll(OrEmptyObject(r.value), op.val)]]
           ELSE /\ storage' = SetJsonItem(storage, KEY_SESSIONS_NEEDING_BACKUP,
                                          Obj(op.acc))
                /\ ops' = [ops EXCEPT ![i] = ReturnVoid(op)]
    /\ UNCHANGED <<txns, failures>>

\* unmarkSessionsNeedingBackup(val): read the object, delete the properties,
\* write it back.
UnmarkSessionsStep(i) ==
    /\ ops[i].kind = "unmarkSessionsNeedingBackup"
    /\ ops[i].pc = "run"
    /\ LET op == ops[i]
           r == GetJsonItem(storage, KEY_SESSIONS_NEEDING_BACKUP)
       IN  IF op.ph = 0
           THEN /\ storage' = storage
                /\ ops' = [ops EXCEPT ![i] =
                              IF r.threw THEN Reject(op, r.value)
                              ELSE [op EXCEPT !.ph = 1,
                                        !.acc = UnmarkAll(OrEmptyObject(r.value), op.val)]]
           ELSE /\ storage' = SetJsonItem(storage, KEY_SESSIONS_NEEDING_BACKUP,
                                          Obj(op.acc))
                /\ ops' = [ops EXCEPT ![i] = ReturnVoid(op)]
    /\ UNCHANGED <<txns, failures>>

\* countSessionsNeedingBackup: Object.keys(sessionsNeedingBackup).length
CountSessionsNeedingBackupStep(i) ==
    /\ ops[i].kind = "countSessionsNeedingBackup"
    /\ ops[i].pc = "run"
    /\ LET r == GetJsonItem(storage, KEY_SESSIONS_NEEDING_BACKUP)
       IN  ops' = [ops EXCEPT ![i] =
                      IF r.threw THEN Reject(@, r.value)
                      ELSE Return(@, Len(OrEmptyObject(r.value)))]
    /\ UNCHANGED <<storage, txns, failures>>

Mut_LimitReached(limit, n) == FALSE

\* if (limit && sessions.length >= limit) break;
LimitReached(limit, n) == limit # 0 /\ n >= limit

\* getSessionsNeedingBackup(val): read the object; per member decode the
\* identifiers and read the group session; a member without session data is
\* skipped; stop at the limit.  acc is the list `sessions`.
GetSessionsNeedingBackupStep(i) ==
    /\ ops[i].kind = "getSessionsNeedingBackup"
    /\ ops[i].pc = "run"
    /\ LET op == ops[i]
       IN  IF op.ph = 0
           THEN LET r == GetJsonItem(storage, KEY_SESSIONS_NEEDING_BACKUP)
                IN  ops' = [ops EXCEPT ![i] =
                               IF r.threw THEN Reject(op, r.value)
                               ELSE IF OrEmptyObject(r.value) = <<>> THEN Return(op, <<>>)
                               ELSE [op EXCEPT !.ph = 1, !.acc = <<>>,
                                         !.keys = OrEmptyObject(r.value)]]
           ELSE LET k == Head(op.keys)
                    keyParts == Split(k)
                    senderKey == DecodeURIComponent(Part(keyParts, 0))
                    sessionId == DecodeURIComponent(Part(keyParts, 1))
                    r == GetJsonItem(storage,
                             KeyEndToEndInboundGroupSession(senderKey.value,
                                                            sessionId.value))
                    sessions == IF Truthy(r.value)
                                THEN Append(op.acc, Entry(senderKey.value,
                                                          sessionId.value, r.value))
                                ELSE op.acc
                    d == [op EXCEPT !.keys = Tail(@), !.acc = sessions]
                IN  ops' = [ops EXCEPT ![i] =
                               IF senderKey.threw THEN Reject(op, senderKey.value)
                               ELSE IF sessionId.threw THEN Reject(op, sessionId.value)
                               ELSE IF r.threw THEN Reject(op, r.value)
                               ELSE IF Truthy(r.value)
                                       /\ LimitReached(op.val, Len(sessions))
                               THEN Return(d, sessions)
                               ELSE IF d.keys = <<>> THEN Return(d, sessions)
                               ELSE d]
    /\ UNCHANGED <<storage, txns, failures>>

(***************************************************************************)
(* SpecBackup: up to MaxListCalls awaited calls that store and delete      *)
(* group sessions, mark and unmark sessions needing backup, and count and  *)
(* get the sessions needing backup with a limit up to MaxLimit.            *)
(***************************************************************************)
BackupLists ==
    { <<<<<<"a", "/", "b">>, <<"c">>>>>>,
      <<<<<<"a", "/", "b">>, <<"c">>>>, <<<<"a">>, <<"b", "/", "c">>>>>> }

BackupMenu ==
    { Tpl("storeEndToEndInboundGroupSession", <<"a", "/", "b">>, <<"c">>,
          Obj("some-session")),
      Tpl("storeEndToEndInboundGroupSession", <<"a">>, <<"b", "/", "c">>,
          Obj("another-session")) }

BackupDirectMenu ==
    {Tpl(k, <<>>, <<>>, l) :
        k \in {"markSessionsNeedingBackup", "unmarkSessionsNeedingBackup"},
        l \in BackupLists}
    \cup {Tpl("deleteEndToEndInboundGroupSessionsBatch", <<>>, <<>>,
              <<<<<<"a", "/", "b">>, <<"c">>>>>>)}
    \cup {Tpl("countSessionsNeedingBackup", <<>>, <<>>, Undefined)}
    \cup {Tpl("getSessionsNeedingBackup", <<>>, <<>>, limit) : limit \in 0..MaxLimit}

NextBackup ==
    \/ \E op \in BackupMenu : Call(op, MaxListCalls)
    \/ \E op \in BackupDirectMenu : CallDirect(op, MaxListCalls)
    \/ \E i \in DOMAIN ops : StoreStep(i)
    \/ \E i \in DOMAIN ops : OperationEnded(i)
    \/ \E i \in DOMAIN ops : DeleteGroupSessionsBatchStep(i)
    \/ \E i \in DOMAIN ops : MarkSessionsStep(i)
    \/ \E i \in DOMAIN ops : UnmarkSessionsStep(i)
    \/ \E i \in DOMAIN ops : CountSessionsNeedingBackupStep(i)
    \/ \E i \in DOMAIN ops : GetSessionsNeedingBackupStep(i)

SpecBackup == Init /\ [][NextBackup]_vars

IsMark(op) == op.kind = "markSessionsNeedingBackup"
IsUnmark(op) == op.kind = "unmarkSessionsNeedingBackup"

\* The backup-membership set when operation k runs: the union of the marked
\* lists minus what was unmarked afterwards.
MembersBefore(k) ==
    UNION { {p \in Range(ops[j].val) :
                \A x \in (j + 1)..(k - 1) :
                    ~(IsUnmark(ops[x]) /\ p \in Range(ops[x].val))} :
            j \in {x \in 1..(k - 1) : IsMark(ops[x])} }

\* The members with stored group-session data when operation k runs, joined
\* with that data.
JoinedBefore(k) ==
    { Entry(ops[j].a1, ops[j].a2, ops[j].val) :
        j \in {x \in 1..(k - 1) :
                 /\ LastGroupStore(x, k)
                 /\ <<ops[x].a1, ops[x].a2>> \in MembersBefore(k)
                 /\ <<ops[x].a1, ops[x].a2>> \in
                        PairsBefore(k, "storeEndToEndInboundGroupSession")} }

\* C12: for awaited calls the membership set is the union of the marked
\* lists minus the lists unmarked since: countSessionsNeedingBackup returns
\* its size and getSessionsNeedingBackup(0) returns each member joined with
\* its stored group-session data, so both are zero/empty once every marked
\* session is unmarked.
C12_MarkUnmarkToggleMembership ==
    \A k \in DOMAIN ops :
        ops[k].pc = "ended" =>
            /\ ops[k].kind = "countSessionsNeedingBackup" =>
                  ops[k].out = <<Cardinality(MembersBefore(k))>>
            /\ (ops[k].kind = "getSessionsNeedingBackup" /\ ops[k].val = 0) =>
                  /\ Len(ops[k].out) = 1
                  /\ Range(ops[k].out[1]) = JoinedBefore(k)
                  /\ Len(ops[k].out[1]) = Cardinality(JoinedBefore(k))

\* C12 witness: two sessions marked, both unmarked, then the count returned
\* 0 and getSessionsNeedingBackup(0) returned the empty list.
C12_Witness ==
    \E h, j, k, g \in DOMAIN ops :
        /\ h < j /\ j < k /\ j < g
        /\ IsMark(ops[h]) /\ Len(ops[h].val) = 2
        /\ IsUnmark(ops[j]) /\ Len(ops[j].val) = 2
        /\ ops[k].kind = "countSessionsNeedingBackup"
        /\ ops[k].pc = "ended" /\ ops[k].out = <<0>>
        /\ ops[g].kind = "getSessionsNeedingBackup"
        /\ ops[g].pc = "ended" /\ ops[g].out = <<<<>>>>

Min(a, b) == IF a <= b THEN a ELSE b

\* C13: getSessionsNeedingBackup(limit) does not fail on a member without
\* group-session data: it returns, without duplicates, only members that
\* have stored data, all of them when limit is 0 and exactly
\* min(limit, number of members with stored data) of them otherwise.
C13_GetSkipsAbsentAndStopsAtLimit ==
    \A k \in DOMAIN ops :
        (ops[k].kind = "getSessionsNeedingBackup" /\ ops[k].pc = "ended") =>
            LET n == Cardinality(JoinedBefore(k))
            IN  /\ ~ops[k].result.threw
                /\ Len(ops[k].out) = 1
                /\ Range(ops[k].out[1]) \subseteq JoinedBefore(k)
                /\ Cardinality(Range(ops[k].out[1])) = Len(ops[k].out[1])
                /\ Len(ops[k].out[1]) =
                      IF ops[k].val = 0 THEN n ELSE Min(ops[k].val, n)

\* C13 witness: a member without stored data was skipped and a get with a
\* positive limit returned exactly limit entries.
C13_Witness ==
    \E k \in DOMAIN ops :
        /\ ops[k].kind = "getSessionsNeedingBackup"
        /\ ops[k].pc = "ended"
        /\ ops[k].val > 0
        /\ Len(ops[k].out[1]) = ops[k].val
        /\ Cardinality(MembersBefore(k)) > Cardinality(JoinedBefore(k))

(***************************************************************************)
(* Batch retrieval.                                                        *)
(***************************************************************************)
Mut_BatchResult(result) == result

\* if (result.length === 0) return null; return result;
BatchResult(result) == IF result = <<>> THEN Null ELSE result

\* getEndToEndSessionsBatch: the keys under END_TO_END_SESSION_PREFIX, read
\* one by one into acc (`result`) until the batch is full.
GetSessionsBatchStep(i) ==
    /\ ops[i].kind = "getEndToEndSessionsBatch"
    /\ ops[i].pc = "run"
    /\ LET op == ops[i]
       IN  IF op.ph = 0
           THEN \E ks \in Orderings({k \in DOMAIN storage :
                                  StartsWith(k, END_TO_END_SESSION_PREFIX)}) :
                   ops' = [ops EXCEPT ![i] =
                              IF ks = <<>> THEN Return(op, BatchResult(<<>>))
                              ELSE [op EXCEPT !.ph = 1, !.keys = ks, !.acc = <<>>]]
           ELSE LET r == GetJsonItem(storage, Head(op.keys))
                    result == IF Truthy(r.value) THEN Append(op.acc, r.value)
                              ELSE op.acc
                    d == [op EXCEPT !.keys = Tail(@), !.acc = result]
                IN  ops' = [ops EXCEPT ![i] =
                               IF r.threw THEN Reject(op, r.value)
                               ELSE IF Truthy(r.value) /\ Len(result) >= SESSION_BATCH_SIZE
                               THEN Return(d, result)
                               ELSE IF d.keys = <<>> THEN Return(d, BatchResult(result))
                               ELSE d]
    /\ UNCHANGED <<storage, txns, failures>>

\* The property names that `in` finds on a Promise object.
PromiseProperties ==
    { <<"t", "h", "e", "n">>, <<"c", "a", "t", "c", "h">>,
      <<"f", "i", "n", "a", "l", "l", "y">>,
      <<"c", "o", "n", "s", "t", "r", "u", "c", "t", "o", "r">> }

\* An entry of getEndToEndInboundGroupSessionsBatch.
EntryExtended(senderKey, sessionId, sessionData, needsBackup) ==
    <<"entry", senderKey, sessionId, sessionData, needsBackup>>

\* getEndToEndInboundGroupSessionsBatch: the keys under
\* INBOUND_SESSION_PREFIX, read one by one into acc (`result`) until the
\* batch is full.  For every entry it calls getSessionsNeedingBackup(0)
\* without awaiting it and applies `k in` to the promise.
GetGroupSessionsBatchStep(i) ==
    /\ ops[i].kind = "getEndToEndInboundGroupSessionsBatch"
    /\ ops[i].pc = "run"
    /\ LET op == ops[i]
       IN  IF op.ph = 0
           THEN \E ks \in Orderings({k \in DOMAIN storage :
                                  StartsWith(k, INBOUND_SESSION_PREFIX)}) :
                   ops' = [ops EXCEPT ![i] =
                              IF ks = <<>> THEN Return(op, BatchResult(<<>>))
                              ELSE [op EXCEPT !.ph = 1, !.keys = ks, !.acc = <<>>]]
           ELSE LET k == Head(op.keys)
                    keyParts == Split(k)
                    senderKey == DecodeURIComponent(Part(keyParts, 1))
                    sessionId == DecodeURIComponent(Part(keyParts, 2))
                    r == GetJsonItem(storage, k)
                    result == Append(op.acc,
                                  EntryExtended(senderKey.value, sessionId.value,
                                                r.value, k \in PromiseProperties))
                    d == [op EXCEPT !.keys = Tail(@), !.acc = result]
                    spawned == NewOp("getSessionsNeedingBackup", -1, <<>>, <<>>, 0)
                IN  IF senderKey.threw
                    THEN ops' = [ops EXCEPT ![i] = Reject(op, senderKey.value)]
                    ELSE IF sessionId.threw
                    THEN ops' = [ops EXCEPT ![i] = Reject(op, sessionId.value)]
                    ELSE IF r.threw
                    THEN ops' = [ops EXCEPT ![i] = Reject(op, r.value)]
                    ELSE ops' = Append(
                            [ops EXCEPT ![i] =
                                IF Len(result) >= SESSION_BATCH_SIZE
                                THEN Return(d, result)
                                ELSE IF d.keys = <<>> THEN Return(d, BatchResult(result))
                                ELSE d],
                            spawned)
    /\ UNCHANGED <<storage, txns, failures>>

(***************************************************************************)
(* SpecBatch: up to MaxListCalls awaited calls that store sessions and     *)
(* group sessions under three identifiers each, delete all data, and      *)
(* retrieve a batch.                                                       *)
(***************************************************************************)
BatchIds == { <<"s">>, <<"s", "s">>, <<"s", "s", "s">> }

BatchMenu ==
    {Tpl(k, <<"d">>, id, Obj(id)) :
        k \in {"storeEndToEndSession", "storeEndToEndInboundGroupSession"},
        id \in BatchIds}

BatchDirectMenu ==
    {Tpl(k, <<>>, <<>>, Undefined) :
        k \in {"getEndToEndSessionsBatch", "getEndToEndInboundGroupSessionsBatch",
               "deleteAllData"}}

NextBatch ==
    \/ \E op \in BatchMenu : Call(op, MaxListCalls)
    \/ \E op \in BatchDirectMenu : CallDirect(op, MaxListCalls)
    \/ \E i \in DOMAIN ops : StoreStep(i)
    \/ \E i \in DOMAIN ops : OperationEnded(i)
    \/ \E i \in DOMAIN ops : DeleteAllDataStep(i)
    \/ \E i \in DOMAIN ops : GetSessionsBatchStep(i)
    \/ \E i \in DOMAIN ops : GetGroupSessionsBatchStep(i)
    \/ \E i \in DOMAIN ops : GetSessionsNeedingBackupStep(i)

SpecBatch == Init /\ [][NextBatch]_vars

\* The entries of the kind that storeKind stores when operation k runs, as
\* (identifier, identifier, data).
StoredBefore(k, storeKind) ==
    { <<ops[j].a1, ops[j].a2, ops[j].val>> :
        j \in {x \in 1..(k - 1) :
                 /\ ops[x].kind = storeKind
                 /\ <<ops[x].a1, ops[x].a2>> \in PairsBefore(k, storeKind)
                 /\ \A y \in (x + 1)..(k - 1) :
                       ~(ops[y].kind = storeKind /\ SameIds(ops[y], ops[x]))} }

\* A batch result r is right for the set of stored entries; shown is what
\* the entries of a non-null r show of the stored entries.
BatchRight(r, shown, stored) ==
    /\ r = Null <=> stored = {}
    /\ r # Null =>
          /\ Len(r) <= SESSION_BATCH_SIZE
          /\ Cardinality(stored) < SESSION_BATCH_SIZE =>
                (Len(r) = Cardinality(stored) /\ shown = stored)

\* C14: a batch retrieval returns null exactly when no entry of its kind is
\* stored, all entries when fewer than SESSION_BATCH_SIZE are stored, and
\* never more than SESSION_BATCH_SIZE entries.
C14_BatchNullOnlyWhenEmpty ==
    \A k \in DOMAIN ops :
        (ops[k].pc = "ended" /\ ops[k].txn = 0) =>
            /\ ops[k].kind = "getEndToEndSessionsBatch" =>
                  /\ Len(ops[k].out) = 1
                  /\ LET r == ops[k].out[1]
                     IN  BatchRight(r, Range(r),
                             {e[3] : e \in StoredBefore(k, "storeEndToEndSession")})
            /\ ops[k].kind = "getEndToEndInboundGroupSessionsBatch" =>
                  /\ Len(ops[k].out) = 1
                  /\ LET r == ops[k].out[1]
                     IN  BatchRight(r, {<<e[2], e[3], e[4]>> : e \in Range(r)},
                             StoredBefore(k, "storeEndToEndInboundGroupSession"))

\* C14 witness: with nothing stored both batch retrievals returned null, and
\* with one session stored the session batch returned a list of one.
C14_Witness ==
    \E h, j, k \in DOMAIN ops :
        /\ ops[h].kind = "getEndToEndSessionsBatch"
        /\ ops[h].pc = "ended" /\ ops[h].out = <<Null>>
        /\ ops[j].kind = "getEndToEndInboundGroupSessionsBatch"
        /\ ops[j].pc = "ended" /\ ops[j].out = <<Null>>
        /\ ops[k].kind = "getEndToEndSessionsBatch"
        /\ ops[k].pc = "ended"
        /\ ops[k].out[1] # Null
        /\ Len(ops[k].out[1]) = 1
        /\ SESSION_BATCH_SIZE > 1

(***************************************************************************)
(* Parked shared history: one JSON array per room.                         *)
(***************************************************************************)
\* (await this._getJsonItem(key)) ?? []
OrEmptyArray(v) == IF v \in {Null, Undefined} THEN <<>> ELSE v[2]

\* addParkedSharedHistory(a1, val): read the room's array, push, write it.
AddParkedSharedHistoryStep(i) ==
    /\ ops[i].kind = "addParkedSharedHistory"
    /\ ops[i].pc = "run"
    /\ LET op == ops[i]
           r == GetJsonItem(storage, KeyParkedSharedHistory(op.a1))
       IN  IF op.ph = 0
           THEN /\ storage' = storage
                /\ ops' = [ops EXCEPT ![i] =
                              IF r.threw THEN Reject(op, r.value)
                              ELSE [op EXCEPT !.ph = 1,
                                        !.acc = Append(OrEmptyArray(r.value), op.val)]]
           ELSE /\ storage' = SetJsonItem(storage, KeyParkedSharedHistory(op.a1),
                                          Arr(op.acc))
                /\ ops' = [ops EXCEPT ![i] = ReturnVoid(op)]
    /\ UNCHANGED <<txns, failures>>

\* takeParkedSharedHistory(a1): read the room's array, remove the key,
\* return the array.
TakeParkedSharedHistoryStep(i) ==
    /\ ops[i].kind = "takeParkedSharedHistory"
    /\ ops[i].pc = "run"
    /\ LET op == ops[i]
           r == GetJsonItem(storage, KeyParkedSharedHistory(op.a1))
       IN  IF op.ph = 0
           THEN /\ storage' = storage
                /\ ops' = [ops EXCEPT ![i] =
                              IF r.threw THEN Reject(op, r.value)
                              ELSE [op EXCEPT !.ph = 1, !.acc = OrEmptyArray(r.value)]]
           ELSE /\ storage' = RemoveItem(storage, KeyParkedSharedHistory(op.a1))
                /\ ops' = [ops EXCEPT ![i] = Return(op, op.acc)]
    /\ UNCHANGED <<txns, failures>>

(***************************************************************************)
(* SpecParked: up to MaxListCalls awaited calls that park shared history   *)
(* for two rooms and take it.                                              *)
(***************************************************************************)
ParkedRooms == { <<"a", "/", "b">>, <<"a", "%", "2", "F", "b">> }

ParkedMenu ==
    {Tpl("addParkedSharedHistory", room, <<>>, v) : room \in ParkedRooms, v \in Data}
    \cup {Tpl("takeParkedSharedHistory", room, <<>>, Undefined) : room \in ParkedRooms}

NextParked ==
    \/ \E op \in ParkedMenu : CallDirect(op, MaxListCalls)
    \/ \E i \in DOMAIN ops : AddParkedSharedHistoryStep(i)
    \/ \E i \in DOMAIN ops : TakeParkedSharedHistoryStep(i)

SpecParked == Init /\ [][NextParked]_vars

\* The records parked for the room by the first n operations and not taken
\* by one of them, in the order they were added.
RECURSIVE ParkedUpTo(_, _)
ParkedUpTo(n, room) ==
    IF n = 0 THEN <<>>
    ELSE IF ops[n].a1 # room THEN ParkedUpTo(n - 1, room)
    ELSE IF ops[n].kind = "takeParkedSharedHistory" THEN <<>>
    ELSE IF ops[n].kind = "addParkedSharedHistory"
    THEN Append(ParkedUpTo(n - 1, room), ops[n].val)
    ELSE ParkedUpTo(n - 1, room)

\* C15: takeParkedSharedHistory(room) returns the records parked for the
\* room since its last take, in the order they were added, whatever was
\* done to other rooms; and between calls the backend holds for every room
\* exactly those records, and no key at all for a room that was just taken.
C15_TakeIsReadAndClear ==
    /\ \A k \in DOMAIN ops :
          (ops[k].kind = "takeParkedSharedHistory" /\ ops[k].pc = "ended") =>
              ops[k].out = <<ParkedUpTo(k - 1, ops[k].a1)>>
    /\ Quiescent =>
          \A room \in ParkedRooms :
              GetItem(storage, KeyParkedSharedHistory(room)) =
                  IF ParkedUpTo(Len(ops), room) = <<>> THEN Null
                  ELSE JsonStringify(Arr(ParkedUpTo(Len(ops), room)))

\* C15 witness: two different records parked for a room, a take that
\* returned both in order, and a following take that returned the empty list.
C15_Witness ==
    \E k, g \in DOMAIN ops :
        /\ g = k + 1
        /\ ops[k].kind = "takeParkedSharedHistory"
        /\ ops[g].kind = "takeParkedSharedHistory"
        /\ ops[g].a1 = ops[k].a1
        /\ ops[k].pc = "ended" /\ ops[g].pc = "ended"
        /\ Len(ops[k].out[1]) = 2
        /\ ops[k].out[1][1] # ops[k].out[1][2]
        /\ ops[g].out = <<<<>>>>

(***************************************************************************)
(* Outgoing room key requests: one JSON object per request id, with the    *)
(* fields requestId, state and requestBody.                                *)
(***************************************************************************)
\* Object.assign(req, updates)
ObjectAssign(req, updates) ==
    [f \in DOMAIN req \cup DOMAIN updates |->
        IF f \in DOMAIN updates THEN updates[f] ELSE req[f]]

Mut_SameRequestBody(b1, b2) == b1.room_id = b2.room_id

\* req.requestBody.room_id === requestBody.room_id &&
\* req.requestBody.session_id === requestBody.session_id
SameRequestBody(b1, b2) == b1.room_id = b2.room_id /\ b1.session_id = b2.session_id

\* getOrAddOutgoingRoomKeyRequest(val): scan the stored requests for one
\* with the same request body (getOutgoingRoomKeyRequest); return it if
\* there is one, else store the request under its id and return it.
GetOrAddOutgoingRoomKeyRequestStep(i) ==
    /\ ops[i].kind = "getOrAddOutgoingRoomKeyRequest"
    /\ ops[i].pc = "run"
    /\ LET op == ops[i]
       IN  CASE op.ph = 0 ->
                  /\ storage' = storage
                  /\ \E ks \in Orderings({k \in DOMAIN storage :
                                    StartsWith(k, OUTGOING_KEY_REQUEST_PREFIX)}) :
                        ops' = [ops EXCEPT ![i] =
                                   IF ks = <<>> THEN [op EXCEPT !.ph = 2]
                                   ELSE [op EXCEPT !.ph = 1, !.keys = ks]]
             [] op.ph = 1 ->
                  /\ storage' = storage
                  /\ LET r == GetJsonItem(storage, Head(op.keys))
                     IN  ops' = [ops EXCEPT ![i] =
                                    IF r.threw THEN Reject(op, r.value)
                                    ELSE IF r.value = Null
                                    THEN Reject(op, Err("TypeError"))
                                    ELSE IF SameRequestBody(r.value[2].requestBody,
                                                            op.val.requestBody)
                                    THEN Return(op, r.value)
                                    ELSE IF Tail(op.keys) = <<>>
                                    THEN [op EXCEPT !.ph = 2, !.keys = <<>>]
                                    ELSE [op EXCEPT !.keys = Tail(@)]]
             [] op.ph = 2 ->
                  /\ storage' = SetJsonItem(storage,
                                    KeyOutgoingKeyRequest(op.val.requestId), Obj(op.val))
                  /\ ops' = [ops EXCEPT ![i] = Return(op, Obj(op.val))]
    /\ UNCHANGED <<txns, failures>>

Mut_PreconditionFails(req, expectedState) == ~Truthy(req)

\* if (!req || req.state !== expectedState) return null;
PreconditionFails(req, expectedState) ==
    ~Truthy(req) \/ req[2].state # expectedState

\* updateOutgoingRoomKeyRequest(a1, a2, val): read the request; null unless
\* it is in the expected state; else assign the updates and write it back.
UpdateOutgoingRoomKeyRequestStep(i) ==
    /\ ops[i].kind = "updateOutgoingRoomKeyRequest"
    /\ ops[i].pc = "run"
    /\ LET op == ops[i]
           key == KeyOutgoingKeyRequest(op.a1)
           r == GetJsonItem(storage, key)
       IN  IF op.ph = 0
           THEN /\ storage' = storage
                /\ ops' = [ops EXCEPT ![i] =
                              IF r.threw THEN Reject(op, r.value)
                              ELSE IF PreconditionFails(r.value, op.a2)
                              THEN Return(op, Null)
                              ELSE [op EXCEPT !.ph = 1,
                                        !.acc = Obj(ObjectAssign(r.value[2], op.val))]]
           ELSE /\ storage' = SetJsonItem(storage, key, op.acc)
                /\ ops' = [ops EXCEPT ![i] = Return(op, op.acc)]
    /\ UNCHANGED <<txns, failures>>

\* deleteOutgoingRoomKeyRequest(a1, a2): read the request; null unless it is
\* in the expected state; else remove its key and return it.
DeleteOutgoingRoomKeyRequestStep(i) ==
    /\ ops[i].kind = "deleteOutgoingRoomKeyRequest"
    /\ ops[i].pc = "run"
    /\ LET op == ops[i]
           key == KeyOutgoingKeyRequest(op.a1)
           r == GetJsonItem(storage, key)
       IN  IF op.ph = 0
           THEN /\ storage' = storage
                /\ ops' = [ops EXCEPT ![i] =
                              IF r.threw THEN Reject(op, r.value)
                              ELSE IF PreconditionFails(r.value, op.a2)
                              THEN Return(op, Null)
                              ELSE [op EXCEPT !.ph = 1, !.acc = r.value]]
           ELSE /\ storage' = RemoveItem(storage, key)
                /\ ops' = [ops EXCEPT ![i] = Return(op, op.acc)]
    /\ UNCHANGED <<txns, failures>>

(***************************************************************************)
(* SpecOutgoing: up to MaxCalls awaited calls that create, update and      *)
(* delete outgoing room key requests.                                      *)
(***************************************************************************)
RequestIds == { <<"a">>, <<"a", "/", "b">> }
RequestStates == {0, 1}
RequestBodies ==
    { [room_id |-> "room-1", session_id |-> "session-1"],
      [room_id |-> "room-1", session_id |-> "session-2"] }

OutgoingMenu ==
    {Tpl("getOrAddOutgoingRoomKeyRequest", <<>>, <<>>,
         [requestId |-> id, state |-> st, requestBody |-> b]) :
        id \in RequestIds, st \in RequestStates, b \in RequestBodies}
    \cup {Tpl("updateOutgoingRoomKeyRequest", id, st, [state |-> 1 - st]) :
            id \in RequestIds, st \in RequestStates}
    \cup {Tpl("deleteOutgoingRoomKeyRequest", id, st, Undefined) :
            id \in RequestIds, st \in RequestStates}

NextOutgoing ==
    \/ \E op \in OutgoingMenu : CallDirect(op, MaxCalls)
    \/ \E i \in DOMAIN ops : GetOrAddOutgoingRoomKeyRequestStep(i)
    \/ \E i \in DOMAIN ops : UpdateOutgoingRoomKeyRequestStep(i)
    \/ \E i \in DOMAIN ops : DeleteOutgoingRoomKeyRequestStep(i)

SpecOutgoing == Init /\ [][NextOutgoing]_vars

\* The request stored under the id, or null.
StoredRequest(requestId) == GetJsonItem(storage, KeyOutgoingKeyRequest(requestId)).value

\* The request id of operation op is not stored, or is stored in a state
\* other than the expected one.
Mismatch(op) ==
    \/ StoredRequest(op.a1) = Null
    \/ StoredRequest(op.a1)[2].state # op.a2

IsUpdate(op) == op.kind = "updateOutgoingRoomKeyRequest"
IsDelete(op) == op.kind = "deleteOutgoingRoomKeyRequest"

\* C16: an update or delete of an outgoing key request whose id is not
\* stored, or whose stored state is not the expected state, completes in
\* its first step: it returns null, raises no error and changes no key of
\* the backend.
C16_MismatchIsNullNoOp ==
    [][\A i \in DOMAIN ops :
          ( /\ IsUpdate(ops[i]) \/ IsDelete(ops[i])
            /\ ops'[i] # ops[i]
            /\ ops[i].ph = 0
            /\ Mismatch(ops[i]) )
          => /\ ops'[i].pc = "ended"
             /\ ops'[i].out = <<Null>>
             /\ ~ops'[i].result.threw
             /\ storage' = storage]_vars

\* C16 witness: an update whose request is stored in another state returned
\* null, and a delete of an id that is not stored returned null.
C16_Witness ==
    \E i, j \in DOMAIN ops :
        /\ IsUpdate(ops[i]) /\ ops[i].pc = "ended" /\ ops[i].out = <<Null>>
        /\ StoredRequest(ops[i].a1) # Null
        /\ StoredRequest(ops[i].a1)[2].state # ops[i].a2
        /\ IsDelete(ops[j]) /\ ops[j].pc = "ended" /\ ops[j].out = <<Null>>
        /\ StoredRequest(ops[j].a1) = Null

(***************************************************************************)
(* SpecAbsent: up to MaxCalls awaited calls that store entities, delete    *)
(* all data, and read entities under the stored and under neighbouring     *)
(* identifiers.                                                            *)
(***************************************************************************)
AbsentStores ==
    { Tpl("storeAccount", <<>>, <<>>, Str("pickle-1")),
      Tpl("storeCrossSigningKeys", <<>>, <<>>, Obj("some-session")),
      Tpl("storeSecretStorePrivateKey", <<"m">>, <<>>, Obj("some-session")),
      Tpl("storeEndToEndSession", <<"a">>, <<"b">>, Obj("some-session")),
      Tpl("storeEndToEndInboundGroupSession", <<"a">>, <<"b">>, Obj("some-session")),
      Tpl("storeEndToEndInboundGroupSessionWithheld", <<"a">>, <<"b">>, Withheld),
      Tpl("storeEndToEndDeviceData", <<>>, <<>>, Obj("some-session")) }

AbsentReads ==
    {Tpl(k, <<>>, <<>>, Undefined) :
        k \in {"getAccount", "getCrossSigningKeys", "getEndToEndDeviceData"}}
    \cup {Tpl("getSecretStorePrivateKey", type, <<>>, Undefined) :
            type \in {<<"m">>, <<"n">>}}
    \cup {Tpl("getEndToEndSession", <<"a">>, sid, Undefined) :
            sid \in {<<"b">>, <<"c">>}}
    \cup {Tpl("getEndToEndInboundGroupSession", <<"a">>, <<"b">>, Undefined)}

NextAbsent ==
    \/ \E op \in AbsentStores \cup AbsentReads : Call(op, MaxCalls)
    \/ CallDirect(Tpl("deleteAllData", <<>>, <<>>, Undefined), MaxCalls)
    \/ \E i \in DOMAIN ops : StoreStep(i)
    \/ \E i \in DOMAIN ops : GetStep(i)
    \/ \E i \in DOMAIN ops : GetGroupSessionStep(i)
    \/ \E i \in DOMAIN ops : DeleteAllDataStep(i)
    \/ \E i \in DOMAIN ops : OperationEnded(i)

SpecAbsent == Init /\ [][NextAbsent]_vars

IsRead(op) == op.kind \in GetKinds \cup {"getEndToEndInboundGroupSession"}

\* Operation j < k stored the key that k reads and no deleteAllData came
\* between them.
StoredFor(j, k) ==
    /\ j < k
    /\ ops[j].kind \in StoreKinds
    /\ KeyOf(ops[j]) = KeyOf(ops[k])
    /\ \A x \in (j + 1)..(k - 1) : ops[x].kind # "deleteAllData"

\* C17: a read whose key is not stored has, when it has ended, called its
\* callback exactly once, with null (getEndToEndInboundGroupSession: with
\* null for the group session), and its context is Resolved.
C17_AbsentReadDeliversNull ==
    \A k \in DOMAIN ops :
        ( /\ IsRead(ops[k])
          /\ ops[k].pc = "ended"
          /\ \A j \in DOMAIN ops : ~StoredFor(j, k) )
        => /\ Len(ops[k].out) = 1
           /\ IF ops[k].kind = "getEndToEndInboundGroupSession"
              THEN ops[k].out[1][1] = Null
              ELSE ops[k].out[1] = Null
           /\ txns[ops[k].txn].promise = "resolved"

\* C17 witness: a secret was stored, and a read of a secret of another type
\* delivered null in a context that is Resolved.
C17_Witness ==
    \E j, k \in DOMAIN ops :
        /\ j < k
        /\ ops[j].kind = "storeSecretStorePrivateKey"
        /\ ops[k].kind = "getSecretStorePrivateKey"
        /\ ops[k].a1 # ops[j].a1
        /\ ops[k].pc = "ended"
        /\ ops[k].out = <<Null>>
        /\ txns[ops[k].txn].promise = "resolved"

(***************************************************************************)
(* Callers that issue several operations on one transaction and keep       *)
(* several transactions open.                                              *)
(***************************************************************************)
\* An entity operation called with transaction t.
IssueOp(t, op) ==
    /\ Len(ops) < MaxOps
    /\ LET e == ExecuteOn(txns, ops, t, [op EXCEPT !.txn = t])
       IN  txns' = e.txns /\ ops' = e.ops
    /\ UNCHANGED <<storage, failures>>

\* The backend holds a text that is not JSON under one of the store's keys.
Corrupt(key) ==
    /\ GetItem(storage, key) # <<"garbage">>
    /\ storage' = SetItem(storage, key, <<"garbage">>)
    /\ UNCHANGED <<txns, ops, failures>>

(***************************************************************************)
(* SpecMalformed: up to MaxTxns transactions and MaxOps operations: reads  *)
(* and listings of entities whose stored text may be malformed, stores,    *)
(* and operations that fail with an arbitrary value.                       *)
(***************************************************************************)
MalformedKeys ==
    { KEY_END_TO_END_ACCOUNT,
      KeyEndToEndInboundGroupSession(<<"a">>, <<"b">>) }

MalformedMenu ==
    { Tpl("getAccount", <<>>, <<>>, Undefined),
      Tpl("getEndToEndInboundGroupSession", <<"a">>, <<"b">>, Undefined),
      Tpl("getAllEndToEndInboundGroupSessions", <<>>, <<>>, Undefined),
      Tpl("storeEndToEndInboundGroupSession", <<"a">>, <<"c">>, Obj("some-session")) }

NextMalformed ==
    \/ DoTxn
    \/ \E k \in MalformedKeys : Corrupt(k)
    \/ \E t \in DOMAIN txns, op \in MalformedMenu : IssueOp(t, op)
    \/ \E t \in DOMAIN txns : ExecuteFunc(t)
    \/ \E i \in DOMAIN ops, r \in {NoResult} \cup {ThrowResult(e) : e \in Thrown} :
          FuncSettles(i, r)
    \/ \E i \in DOMAIN ops : StoreStep(i)
    \/ \E i \in DOMAIN ops : GetStep(i)
    \/ \E i \in DOMAIN ops : GetGroupSessionStep(i)
    \/ \E i \in DOMAIN ops : GetAllGroupSessionsStep(i)
    \/ \E i \in DOMAIN ops : OperationEnded(i)

SpecMalformed == Init /\ [][NextMalformed]_vars

\* Operation op is a read inside a transaction that failed to deserialize a
\* stored value.
FailedToParse(op) ==
    /\ op.kind \in GetKinds \cup {"getEndToEndInboundGroupSession",
                                  "getAllEndToEndInboundGroupSessions"}
    /\ op.result = ThrowResult(Err("SyntaxError"))

\* C18 (as claimed): a read inside a context that meets a stored value it
\* cannot deserialize has not called its callback, and its context is
\* Rejected once all its operations have finished and is never Resolved.
C18_MalformedReadRejectsContext ==
    \A k \in DOMAIN ops :
        FailedToParse(ops[k]) =>
            /\ ops[k].out = <<>>
            /\ txns[ops[k].txn].promise # "resolved"
            /\ (\A i \in OpsOf(ops[k].txn) : ops[i].pc \in {"ended", "refused"})
                  => txns[ops[k].txn].promise = "rejected"

(***************************************************************************)
(* SpecNoRollback: up to MaxTxns transactions and MaxOps operations.  The   *)
(* callback of each doTxn issues stores and reads of the account and       *)
(* operations that fail; the caller opens the next transaction without     *)
(* waiting, so the operations of all transactions run interleaved.         *)
(***************************************************************************)
NoRollbackMenu ==
    {Tpl("storeAccount", <<>>, <<>>, v) : v \in Pickles}
    \cup {Tpl("getAccount", <<>>, <<>>, Undefined)}

NextNoRollback ==
    \/ DoTxn
    \/ \E op \in NoRollbackMenu : txns # <<>> /\ IssueOp(Len(txns), op)
    \/ txns # <<>> /\ ExecuteFunc(Len(txns))
    \/ \E i \in DOMAIN ops : FuncSettles(i, ThrowResult(Err("E1")))
    \/ \E i \in DOMAIN ops : StoreStep(i)
    \/ \E i \in DOMAIN ops : GetStep(i)
    \/ \E i \in DOMAIN ops : OperationEnded(i)

SpecNoRollback == Init /\ [][NextNoRollback]_vars

\* The backend call of store operation i completes in this step.
WriteCompletes(i) ==
    /\ ops[i].kind \in StoreKinds
    /\ ops[i].pc = "run"
    /\ ops'[i].pc = "finished"

\* The store operations whose backend call has completed.
CompletedWrites == {j \in DOMAIN ops : ops[j].kind \in StoreKinds /\ Done(ops[j])}

\* C19: no write buffering and no rollback.  A write reaches the backend
\* when its backend call completes, whatever the state of its context; the
\* backend changes at no other step, in particular not when a context
\* settles as Rejected, so every completed write of a rejected context stays
\* in the backend until another write replaces it; and a read of any context
\* delivers what the backend holds when it reads, so it sees the completed
\* writes of contexts that have not settled.
C19_NoRollbackNoBuffering ==
    [][ /\ \A i \in DOMAIN ops :
              WriteCompletes(i) =>
                  /\ KeyOf(ops[i]) \in DOMAIN storage'
                  /\ storage'[KeyOf(ops[i])] = JsonStringify(ops[i].val)
        /\ (\A i \in DOMAIN ops : ~WriteCompletes(i)) => storage' = storage
        /\ \A t \in DOMAIN txns :
              (txns[t].promise = "pending" /\ txns'[t].promise = "rejected") =>
                  \A j \in CompletedWrites :
                      ops[j].txn = t =>
                          /\ KeyOf(ops[j]) \in DOMAIN storage'
                          /\ storage'[KeyOf(ops[j])] \in
                                {JsonStringify(ops[x].val) : x \in CompletedWrites}
        /\ \A k \in DOMAIN ops :
              (ops[k].kind \in GetKinds /\ ops[k].pc = "run" /\ ops'[k].pc # "run") =>
                  /\ ops'[k].out = <<IF KeyOf(ops[k]) \in DOMAIN storage
                                      THEN JsonParse(storage[KeyOf(ops[k])]).value
                                      ELSE Null>>
                  /\ (\E j \in CompletedWrites : KeyOf(ops[j]) = KeyOf(ops[k])) =>
                        \E j \in CompletedWrites :
                            /\ KeyOf(ops[j]) = KeyOf(ops[k])
                            /\ ops'[k].out = <<ops[j].val>>
      ]_vars

\* C19 witness: a context is Rejected, the value its store wrote is in the
\* backend, and a read of another context has delivered that value.
C19_Witness ==
    \E j, k \in DOMAIN ops :
        /\ ops[j].kind = "storeAccount"
        /\ txns[ops[j].txn].promise = "rejected"
        /\ KEY_END_TO_END_ACCOUNT \in DOMAIN storage
        /\ storage[KEY_END_TO_END_ACCOUNT] = JsonStringify(ops[j].val)
        /\ ops[k].kind = "getAccount"
        /\ ops[k].txn # ops[j].txn
        /\ ops[k].out = <<ops[j].val>>

(***************************************************************************)
(* getAllEndToEndSessions                                                  *)
(***************************************************************************)
\* getAllEndToEndSessions: list the keys under END_TO_END_SESSION_PREFIX;
\* per key decode the identifiers, read the session again by its rebuilt
\* key and deliver it.  The function returns after the loop.
GetAllSessionsStep(i) ==
    /\ ops[i].kind = "getAllEndToEndSessions"
    /\ ops[i].pc = "run"
    /\ LET op == ops[i]
       IN  IF op.ph = 0
           THEN \E ks \in Orderings({k \in DOMAIN storage :
                                  StartsWith(k, END_TO_END_SESSION_PREFIX)}) :
                   ops' = [ops EXCEPT ![i] =
                              IF ks = <<>> THEN Finish(op)
                              ELSE [op EXCEPT !.ph = 1, !.keys = ks]]
           ELSE LET k == Head(op.keys)
                    deviceKey == DecodeURIComponent(Part(Split(k), 1))
                    sessionId == DecodeURIComponent(Part(Split(k), 2))
                    r == GetJsonItem(storage,
                             KeyEndToEndSession(deviceKey.value, sessionId.value))
                    d == Deliver([op EXCEPT !.keys = Tail(@)], r.value)
                IN  ops' = [ops EXCEPT ![i] =
                               IF deviceKey.threw THEN Fail(op, deviceKey.value)
                               ELSE IF sessionId.threw THEN Fail(op, sessionId.value)
                               ELSE IF r.threw THEN Fail(op, r.value)
                               ELSE IF d.keys = <<>> THEN Finish(d)
                               ELSE d]
    /\ UNCHANGED <<storage, txns, failures>>

(***************************************************************************)
(* SpecAllSessions: up to MaxCalls awaited calls that store sessions and   *)
(* list all sessions.                                                      *)
(***************************************************************************)
AllSessionsMenu ==
    {Tpl("storeEndToEndSession", p[1], p[2], v) : p \in SessionPairs, v \in Data}
    \cup {Tpl("getAllEndToEndSessions", <<>>, <<>>, Undefined)}

NextAllSessions ==
    \/ \E op \in AllSessionsMenu : Call(op, MaxCalls)
    \/ \E i \in DOMAIN ops : StoreStep(i)
    \/ \E i \in DOMAIN ops : GetAllSessionsStep(i)
    \/ \E i \in DOMAIN ops : OperationEnded(i)

SpecAllSessions == Init /\ [][NextAllSessions]_vars

\* C20 (as claimed): with N sessions stored, a finished getAllEndToEndSessions
\* has called its callback exactly N+1 times, and the last call carried null.
C20_SessionsThenNull ==
    \A k \in DOMAIN ops :
        (ops[k].kind = "getAllEndToEndSessions" /\ Done(ops[k])) =>
            LET n == Cardinality(PairsBefore(k, "storeEndToEndSession"))
            IN  /\ Len(ops[k].out) = n + 1
                /\ ops[k].out[n + 1] = Null

(***************************************************************************)
(* SpecBatchDelete: up to MaxListCalls awaited calls that store sessions,   *)
(* group sessions and the account, mark a session as needing backup, and   *)
(* delete batches of sessions and of group sessions.  The lists of         *)
(* deleteEndToEndSessionsBatch hold pairs with an undefined component,     *)
(* which its parameter type allows; one stored device key is the string    *)
(* "undefined".                                                            *)
(***************************************************************************)
UndefinedText == <<"u", "n", "d", "e", "f", "i", "n", "e", "d">>

BatchDeleteMenu ==
    { Tpl("storeEndToEndSession", <<"a">>, <<"s">>, Obj("some-session")),
      Tpl("storeEndToEndSession", UndefinedText, <<"s">>, Obj("another-session")),
      Tpl("storeEndToEndInboundGroupSession", <<"a">>, <<"s">>, Obj("some-session")),
      Tpl("storeAccount", <<>>, <<>>, Str("pickle-1")) }

BatchDeleteDirectMenu ==
    {Tpl("deleteEndToEndSessionsBatch", <<>>, <<>>, l) :
        l \in { << <<Undefined, <<"s">>>>, <<<<"a">>, <<"s">>>> >>,
                << <<<<"a">>, Undefined>> >>,
                << <<<<"b">>, <<"s">>>> >> }}
    \cup {Tpl("deleteEndToEndInboundGroupSessionsBatch", <<>>, <<>>, l) :
            l \in { << <<<<"a">>, <<"s">>>> >>, << <<<<"b">>, <<"s">>>> >> }}
    \cup {Tpl("markSessionsNeedingBackup", <<>>, <<>>, << <<<<"a">>, <<"s">>>> >>)}

NextBatchDelete ==
    \/ \E op \in BatchDeleteMenu : Call(op, MaxListCalls)
    \/ \E op \in BatchDeleteDirectMenu : CallDirect(op, MaxListCalls)
    \/ \E i \in DOMAIN ops : StoreStep(i)
    \/ \E i \in DOMAIN ops : OperationEnded(i)
    \/ \E i \in DOMAIN ops : MarkSessionsStep(i)
    \/ \E i \in DOMAIN ops : DeleteSessionsBatchStep(i)
    \/ \E i \in DOMAIN ops : DeleteGroupSessionsBatchStep(i)

SpecBatchDelete == Init /\ [][NextBatchDelete]_vars

IsBatchDelete(op) ==
    op.kind \in {"deleteEndToEndSessionsBatch", "deleteEndToEndInboundGroupSessionsBatch"}

\* The keys of the pairs of the list of batch delete op that have both
\* components.
NamedKeys(op) ==
    { IF op.kind = "deleteEndToEndSessionsBatch"
      THEN KeyEndToEndSession(p[1], p[2])
      ELSE KeyEndToEndInboundGroupSession(p[1], p[2]) :
        p \in {q \in Range(op.val) : q[1] # Undefined /\ q[2] # Undefined} }

GetOutgoingRoomKeyRequestStep(i) ==
    /\ ops[i].kind = "getOutgoingRoomKeyRequest"
    /\ ops[i].pc = "run"
    /\ LET op == ops[i]
       IN  IF op.ph = 0
           THEN \E ks \in Orderings({k \in DOMAIN storage :
                                  StartsWith(k, OUTGOING_KEY_REQUEST_PREFIX)}) :
                   ops' = [ops EXCEPT ![i] =
                              IF ks = <<>> THEN Return(op, Null)
                              ELSE [op EXCEPT !.ph = 1, !.keys = ks]]
           ELSE LET r == GetJsonItem(storage, Head(op.keys))
                IN  ops' = [ops EXCEPT ![i] =
                               IF r.threw THEN Reject(op, r.value)
                               ELSE IF r.value = Null THEN Reject(op, Err("TypeError"))
                               ELSE IF SameRequestBody(r.value[2].requestBody, op.val)
                               THEN Return(op, r.value)
                               ELSE IF Tail(op.keys) = <<>> THEN Return(op, Null)
                               ELSE [op EXCEPT !.keys = Tail(@)]]
    /\ UNCHANGED <<storage, txns, failures>>

\* getOutgoingRoomKeyRequestByState(val): the first stored request whose
\* state is one of the wanted states, or null.
GetOutgoingRoomKeyRequestByStateStep(i) ==
    /\ ops[i].kind = "getOutgoingRoomKeyRequestByState"
    /\ ops[i].pc = "run"
    /\ LET op == ops[i]
       IN  IF op.ph = 0
           THEN \E ks \in Orderings({k \in DOMAIN storage :
                                  StartsWith(k, OUTGOING_KEY_REQUEST_PREFIX)}) :
                   ops' = [ops EXCEPT ![i] =
                              IF ks = <<>> THEN Return(op, Null)
                              ELSE [op EXCEPT !.ph = 1, !.keys = ks]]
           ELSE LET r == GetJsonItem(storage, Head(op.keys))
                IN  ops' = [ops EXCEPT ![i] =
                               IF r.threw THEN Reject(op, r.value)
                               ELSE IF r.value = Null THEN Reject(op, Err("TypeError"))
                               ELSE IF r.value[2].state \in op.val
                               THEN Return(op, r.value)
                               ELSE IF Tail(op.keys) = <<>> THEN Return(op, Null)
                               ELSE [op EXCEPT !.keys = Tail(@)]]
    /\ UNCHANGED <<storage, txns, failures>>

Mut_HasRecipient(req, userId, deviceId) ==
    \E x \in DOMAIN req.recipients : req.recipients[x].userId = userId

\* req.recipients.some((r) => r.userId === userId && r.deviceId === deviceId)
HasRecipient(req, userId, deviceId) ==
    \E x \in DOMAIN req.recipients :
        req.recipients[x].userId = userId /\ req.recipients[x].deviceId = deviceId

\* getOutgoingRoomKeyRequestsByTarget(a1, a2, val): the stored requests in
\* a wanted state that have the recipient, collected in acc (`reqs`).
GetOutgoingRoomKeyRequestsByTargetStep(i) ==
    /\ ops[i].kind = "getOutgoingRoomKeyRequestsByTarget"
    /\ ops[i].pc = "run"
    /\ LET op == ops[i]
       IN  IF op.ph = 0
           THEN \E ks \in Orderings({k \in DOMAIN storage :
                                  StartsWith(k, OUTGOING_KEY_REQUEST_PREFIX)}) :
                   ops' = [ops EXCEPT ![i] =
                              IF ks = <<>> THEN Return(op, <<>>)
                              ELSE [op EXCEPT !.ph = 1, !.keys = ks, !.acc = <<>>]]
           ELSE LET r == GetJsonItem(storage, Head(op.keys))
                    reqs == IF r.value[2].state \in op.val
                               /\ HasRecipient(r.value[2], op.a1, op.a2)
                            THEN Append(op.acc, r.value)
                            ELSE op.acc
                    d == [op EXCEPT !.keys = Tail(@), !.acc = reqs]
                IN  ops' = [ops EXCEPT ![i] =
                               IF r.threw THEN Reject(op, r.value)
                               ELSE IF r.value = Null THEN Reject(op, Err("TypeError"))
                               ELSE IF d.keys = <<>> THEN Return(d, reqs)
                               ELSE d]
    /\ UNCHANGED <<storage, txns, failures>>

(***************************************************************************)
(* SpecQueries: up to MaxCalls awaited calls that create, update and       *)
(* delete outgoing room key requests and query them by request body, by    *)
(* state and by target device.                                             *)
(***************************************************************************)
QueryRequests ==
    { [requestId |-> <<"a">>, state |-> 0,
       requestBody |-> [room_id |-> "room-1", session_id |-> "session-1"],
       recipients |-> <<[userId |-> "u1", deviceId |-> "d1"]>>],
      [requestId |-> <<"a", "/", "b">>, state |-> 0,
       requestBody |-> [room_id |-> "room-1", session_id |-> "session-2"],
       recipients |-> <<[userId |-> "u1", deviceId |-> "d2"],
                        [userId |-> "u2", deviceId |-> "d1"]>>],
      [requestId |-> <<"c">>, state |-> 1,
       requestBody |-> [room_id |-> "room-2", session_id |-> "session-1"],
       recipients |-> <<[userId |-> "u1", deviceId |-> "d1"]>>] }

QueryMenu ==
    {Tpl("getOrAddOutgoingRoomKeyRequest", <<>>, <<>>, q) : q \in QueryRequests}
    \cup {Tpl("updateOutgoingRoomKeyRequest", <<"a">>, 0, [state |-> 1]),
          Tpl("deleteOutgoingRoomKeyRequest", <<"a", "/", "b">>, 0, Undefined)}
    \cup {Tpl("getOutgoingRoomKeyRequest", <<>>, <<>>, q.requestBody) :
            q \in QueryRequests}
    \cup {Tpl("getOutgoingRoomKeyRequestByState", <<>>, <<>>, s) :
            s \in {{0}, {1}, {0, 1}}}
    \cup {Tpl("getOutgoingRoomKeyRequestsByTarget", u, "d1", s) :
            u \in {"u1", "u2"}, s \in {{0}, {0, 1}}}

NextQueries ==
    \/ \E op \in QueryMenu : CallDirect(op, MaxCalls)
    \/ \E i \in DOMAIN ops : GetOrAddOutgoingRoomKeyRequestStep(i)
    \/ \E i \in DOMAIN ops : UpdateOutgoingRoomKeyRequestStep(i)
    \/ \E i \in DOMAIN ops : DeleteOutgoingRoomKeyRequestStep(i)
    \/ \E i \in DOMAIN ops : GetOutgoingRoomKeyRequestStep(i)
    \/ \E i \in DOMAIN ops : GetOutgoingRoomKeyRequestByStateStep(i)
    \/ \E i \in DOMAIN ops : GetOutgoingRoomKeyRequestsByTargetStep(i)

SpecQueries == Init /\ [][NextQueries]_vars

\* The requests the backend holds, as the values of their texts.
StoredRequests ==
    { JsonParse(storage[k]).value :
        k \in {x \in DOMAIN storage : StartsWith(x, OUTGOING_KEY_REQUEST_PREFIX)} }

\* The stored requests that a query asks for.
Wanted(op) ==
    CASE op.kind = "getOutgoingRoomKeyRequest" ->
            {q \in StoredRequests :
                /\ q[2].requestBody.room_id = op.val.room_id
                /\ q[2].requestBody.session_id = op.val.session_id}
      [] op.kind = "getOutgoingRoomKeyRequestByState" ->
            {q \in StoredRequests : q[2].state \in op.val}
      [] op.kind = "getOutgoingRoomKeyRequestsByTarget" ->
            {q \in StoredRequests :
                /\ q[2].state \in op.val
                /\ [userId |-> op.a1, deviceId |-> op.a2] \in Range(q[2].recipients)}

\* C22: when a query over the stored requests returns, it has raised no
\* error, and getOutgoingRoomKeyRequest and getOutgoingRoomKeyRequestByState
\* return one of the stored requests they ask for, or null when there is
\* none, and getOutgoingRoomKeyRequestsByTarget returns each stored request
\* it asks for exactly once and nothing else.
C22_QueriesAreExact ==
    [][\A i \in DOMAIN ops :
          ( /\ ops[i].kind \in {"getOutgoingRoomKeyRequest",
                                "getOutgoingRoomKeyRequestByState",
                                "getOutgoingRoomKeyRequestsByTarget"}
            /\ ops[i].pc = "run"
            /\ ops'[i].pc = "ended" )
          => /\ ~ops'[i].result.threw
             /\ Len(ops'[i].out) = 1
             /\ LET v == ops'[i].out[1]
                    w == Wanted(ops[i])
                IN  IF ops[i].kind = "getOutgoingRoomKeyRequestsByTarget"
                    THEN Range(v) = w /\ Len(v) = Cardinality(w)
                    ELSE IF w = {} THEN v = Null ELSE v \in w]_vars

\* C22 witness: two requests are stored and a query by target has returned
\* one of them and not the other.
C22_Witness ==
    /\ Cardinality(StoredRequests) = 2
    /\ \E i \in DOMAIN ops :
          /\ ops[i].kind = "getOutgoingRoomKeyRequestsByTarget"
          /\ ops[i].pc = "ended"
          /\ Len(ops[i].out[1]) = 1

\* C23: while a request with the same request body is stored, no step of
\* getOrAddOutgoingRoomKeyRequest(r) writes, and the call returns a stored
\* request with that body; otherwise its only write stores r under its
\* request id, as its last step, and it returns r.  So between awaited
\* calls the backend holds at most one request per request body.
C23_GetOrAddIsGetElseAdd ==
    [][ /\ \A i \in DOMAIN ops :
              (ops[i].kind = "getOrAddOutgoingRoomKeyRequest" /\ ops'[i] # ops[i]) =>
                  LET r == ops[i].val
                      same == {q \in StoredRequests :
                                  q[2].requestBody = r.requestBody}
                      ended == ops'[i].pc = "ended"
                  IN  /\ ~ops'[i].result.threw
                      /\ ended => Len(ops'[i].out) = 1
                      /\ IF same # {}
                         THEN /\ storage' = storage
                              /\ ended => ops'[i].out[1] \in same
                         ELSE /\ ~ended => storage' = storage
                              /\ ended =>
                                    /\ storage' = SetItem(storage,
                                                      KeyOutgoingKeyRequest(r.requestId),
                                                      JsonStringify(Obj(r)))
                                    /\ ops'[i].out[1] = Obj(r)
        /\ Quiescent' =>
              \A q1, q2 \in StoredRequests' :
                  q1[2].requestBody = q2[2].requestBody => q1 = q2
      ]_vars

\* C23 witness: after a request was added, a call with another request id
\* and the same request body returned the stored request, and a call with
\* another request body stored its request: two requests are stored.
C23_Witness ==
    \E h, j, k \in DOMAIN ops :
        /\ h < j /\ h < k
        /\ \A x \in {h, j, k} :
              ops[x].kind = "getOrAddOutgoingRoomKeyRequest" /\ ops[x].pc = "ended"
        /\ ops[j].val.requestId # ops[h].val.requestId
        /\ ops[j].val.requestBody = ops[h].val.requestBody
        /\ ops[j].val.state # ops[h].val.state
        /\ ops[j].out = <<Obj(ops[h].val)>>
        /\ ops[k].val.requestBody # ops[h].val.requestBody
        /\ ops[k].out = <<Obj(ops[k].val)>>
        /\ Cardinality(StoredRequests) = 2

(***************************************************************************)
(* SpecRooms: up to MaxCalls awaited calls that store rooms whose ids hold *)
(* "/" and "%", store the account, and get the rooms.                      *)
(***************************************************************************)
RoomIds ==
    { <<"a">>, <<"a", "/", "b">>, <<"a", "%", "2", "F", "b">>, <<>> }

RoomsMenu ==
    {Tpl("storeEndToEndRoom", room, <<>>, v) : room \in RoomIds, v \in Data}
    \cup {Tpl("storeAccount", <<>>, <<>>, Str("pickle-1")),
          Tpl("getEndToEndRooms", <<>>, <<>>, Undefined)}

NextRooms ==
    \/ \E op \in RoomsMenu : Call(op, MaxCalls)
    \/ \E i \in DOMAIN ops : StoreStep(i)
    \/ \E i \in DOMAIN ops : GetRoomsStep(i)
    \/ \E i \in DOMAIN ops : OperationEnded(i)

SpecRooms == Init /\ [][NextRooms]_vars

\* The rooms stored when operation k runs: each room id stored before k,
\* mapped to the info of its last store.
RoomsBefore(k) ==
    LET stores == {j \in 1..(k - 1) : ops[j].kind = "storeEndToEndRoom"}
        last == {j \in stores : \A x \in stores : ops[x].a1 = ops[j].a1 => x <= j}
    IN  [room \in {ops[j].a1 : j \in stores} |->
            ops[CHOOSE j \in last : ops[j].a1 = room].val]

SpawnedBy(k) ==
    {j \in DOMAIN ops :
        j > k /\ \A x \in (k + 1)..j : ops[x].txn = -1}

\* C25 (as claimed): no operation spawns independent work.  A running
\* operation is suspended at one backend call and no call made on its behalf
\* is running beside it; when the promise of a method has resolved, or a
\* context has settled, no call made on behalf of the method, or of an
\* operation of the context, is still running.
C25_NoSpawnedWork ==
    /\ \A k \in DOMAIN ops :
          (ops[k].txn = 0 /\ ops[k].pc \in {"run", "ended"}) =>
              \A j \in SpawnedBy(k) : ops[j].pc # "run"
    /\ \A t \in DOMAIN txns :
          Settled(txns[t]) => \A i \in OpsOf(t) : ops[i].pc # "run"

(***************************************************************************)
(* Session problems: one JSON array per device of records with the fields  *)
(* type, fixed and time, kept sorted by time.                              *)
(***************************************************************************)
\* (await this._getJsonItem(key)) || []
OrEmptyList(v) == IF Truthy(v) THEN v[2] ELSE <<>>

\* One step of a stable sort by time: p goes behind every problem of the
\* sorted list whose time is not greater than its own.
InsertByTime(sorted, p) ==
    LET n == Cardinality({x \in DOMAIN sorted : sorted[x].time <= p.time})
    IN  SubSeq(sorted, 1, n) \o <<p>> \o SubSeq(sorted, n + 1, Len(sorted))

Mut_SortByTime(problems) == problems

\* problems.sort((a, b) => a.time - b.time): Array.prototype.sort is stable.
RECURSIVE SortByTime(_)
SortByTime(problems) ==
    IF problems = <<>> THEN <<>>
    ELSE InsertByTime(SortByTime(SubSeq(problems, 1, Len(problems) - 1)),
                      problems[Len(problems)])

\* storeEndToEndSessionProblem(a1, a2, val.fixed): read the device's list,
\* push the problem with the time Date.now() returns in this call
\* (val.now), sort, write the list back.
StoreSessionProblemStep(i) ==
    /\ ops[i].kind = "storeEndToEndSessionProblem"
    /\ ops[i].pc = "run"
    /\ LET op == ops[i]
           key == KeyEndToEndSessionProblems(op.a1)
           r == GetJsonItem(storage, key)
           problem == [type |-> op.a2, fixed |-> op.val.fixed, time |-> op.val.now]
       IN  IF op.ph = 0
           THEN /\ storage' = storage
                /\ ops' = [ops EXCEPT ![i] =
                              IF r.threw THEN Reject(op, r.value)
                              ELSE [op EXCEPT !.ph = 1,
                                        !.acc = SortByTime(
                                            Append(OrEmptyList(r.value), problem))]]
           ELSE /\ storage' = SetJsonItem(storage, key, Arr(op.acc))
                /\ ops' = [ops EXCEPT ![i] = ReturnVoid(op)]
    /\ UNCHANGED <<txns, failures>>

\* getEndToEndSessionProblem(a1, val): the first problem of the list later
\* than the timestamp, with the fixed flag of the last problem of the list;
\* without one, the last problem unless it is fixed.
GetSessionProblemStep(i) ==
    /\ ops[i].kind = "getEndToEndSessionProblem"
    /\ ops[i].pc = "run"
    /\ LET op == ops[i]
           r == GetJsonItem(storage, KeyEndToEndSessionProblems(op.a1))
           problems == OrEmptyList(r.value)
           lastProblem == problems[Len(problems)]
           later == {x \in DOMAIN problems : problems[x].time > op.val}
           first == CHOOSE x \in later : \A y \in later : x <= y
       IN  ops' = [ops EXCEPT ![i] =
                      IF r.threw THEN Reject(op, r.value)
                      ELSE IF problems = <<>> THEN Return(op, Null)
                      ELSE IF later # {}
                      THEN Return(op, Obj(ObjectAssign(problems[first],
                                                       [fixed |-> lastProblem.fixed])))
                      ELSE IF lastProblem.fixed THEN Return(op, Null)
                      ELSE Return(op, Obj(lastProblem))]
    /\ UNCHANGED <<storage, txns, failures>>

(***************************************************************************)
(* SpecProblems: up to MaxCalls awaited calls that log problems for two    *)
(* devices, at times the clock may repeat or step back to, and get the     *)
(* problem of one device for a timestamp.                                  *)
(***************************************************************************)
ProblemsMenu ==
    {Tpl("storeEndToEndSessionProblem", d, "wedged", [fixed |-> f, now |-> t]) :
        d \in {<<"a">>, <<"a", "/", "b">>}, f \in BOOLEAN, t \in 1..MaxTime}
    \cup {Tpl("getEndToEndSessionProblem", <<"a">>, <<>>, t) : t \in 0..MaxTime}

NextProblems ==
    \/ \E op \in ProblemsMenu : CallDirect(op, MaxCalls)
    \/ \E i \in DOMAIN ops : StoreSessionProblemStep(i)
    \/ \E i \in DOMAIN ops : GetSessionProblemStep(i)

SpecProblems == Init /\ [][NextProblems]_vars

\* The operations before k that logged a problem for the device of k.
LoggedBefore(k) ==
    {j \in 1..(k - 1) :
        ops[j].kind = "storeEndToEndSessionProblem" /\ ops[j].a1 = ops[k].a1}

\* Problem j is not later than problem h: by time, and by the order of
\* logging among problems of the same time.
NotLater(j, h) ==
    ops[j].val.now < ops[h].val.now \/ (ops[j].val.now = ops[h].val.now /\ j <= h)

ProblemOf(j, fixed) ==
    Obj([type |-> ops[j].a2, fixed |-> fixed, time |-> ops[j].val.now])

\* C26: getEndToEndSessionProblem(device, t) returns null when no problem is
\* logged for the device; else the earliest problem with time > t, with the
\* fixed flag of the latest problem; and when no problem has time > t, the
\* latest problem if it is not fixed and null if it is.
C26_ProblemForTimestamp ==
    \A k \in DOMAIN ops :
        (ops[k].kind = "getEndToEndSessionProblem" /\ ops[k].pc = "ended") =>
            LET logged == LoggedBefore(k)
                later == {j \in logged : ops[j].val.now > ops[k].val}
                latest == CHOOSE j \in logged : \A h \in logged : NotLater(h, j)
                earliest == CHOOSE j \in later : \A h \in later : NotLater(j, h)
            IN  /\ ~ops[k].result.threw
                /\ ops[k].out =
                      IF logged = {} THEN <<Null>>
                      ELSE IF later # {}
                      THEN <<ProblemOf(earliest, ops[latest].val.fixed)>>
                      ELSE IF ops[latest].val.fixed THEN <<Null>>
                      ELSE <<ProblemOf(latest, FALSE)>>

\* C26 witness: an unfixed problem was logged, then a fixed problem with an
\* earlier time, and the get for a timestamp before both returned the fixed
\* problem with the fixed flag of the unfixed one.
C26_Witness ==
    \E h, j, k \in DOMAIN ops :
        /\ h < j /\ j < k
        /\ h \in LoggedBefore(k) /\ j \in LoggedBefore(k)
        /\ ~ops[h].val.fixed /\ ops[j].val.fixed
        /\ ops[j].val.now < ops[h].val.now
        /\ ops[k].kind = "getEndToEndSessionProblem"
        /\ ops[k].pc = "ended"
        /\ ops[k].val < ops[j].val.now
        /\ ops[k].out = <<ProblemOf(j, FALSE)>>

\* What the caller of an entity method gets when the method has called
\* execute with result r: the method is not async and drops the promise
\* that execute returns, so it returns undefined whatever r is.
EntityMethodReturns(r) == NoResult

\* C27 (as claimed): an entity operation issued against a settled context
\* is reported to its caller as an error.
C27_MisuseReportedToCaller ==
    \A i \in DOMAIN ops :
        (ops[i].pc = "refused" /\ ops[i].kind \in StoreKinds \cup GetKinds) =>
            EntityMethodReturns(ops[i].result).threw

\* The operations of context t that execute has started and whose finally
\* clause has not run.
InFlight(t) == {i \in OpsOf(t) : ops[i].pc \in {"run", "finished"}}

\* C28: in every state reached, the counter of a context is the number of
\* its operations in flight, so it is never negative.  A step that starts an
\* operation adds one before the operation has run; a step in which an
\* operation ends subtracts one, whether the operation failed or not; no
\* other step changes the counter; and a settled context keeps its outcome.
C28_CounterCountsOpsInFlight ==
    [][\A t \in DOMAIN txns' :
          /\ txns'[t].numOps = Cardinality(InFlight(t)')
          /\ txns'[t].numOps >= 0
          /\ t \in DOMAIN txns =>
                LET started == {i \in DOMAIN ops' \ DOMAIN ops :
                                   ops'[i].txn = t /\ ops'[i].pc # "refused"}
                    ended == {i \in OpsOf(t) : ops[i].pc # "ended" /\ ops'[i].pc = "ended"}
                IN  /\ txns'[t].numOps =
                          txns[t].numOps + Cardinality(started) - Cardinality(ended)
                    /\ \A i \in started : ops'[i].pc = "run" /\ ops'[i].out = <<>>
                    /\ \A i \in ended : ops[i].pc = "finished"
                    /\ Settled(txns[t]) =>
                          /\ txns'[t].promise = txns[t].promise
                          /\ txns'[t].reason = txns[t].reason]_vars

\* C28 witness: a context with two operations that ended, one of which had
\* failed and the other had not; its counter is back at zero and it has
\* settled.
C28_Witness ==
    \E t \in DOMAIN txns :
        /\ Settled(txns[t])
        /\ txns[t].numOps = 0
        /\ \E i, j \in OpsOf(t) :
              /\ ops[i].pc = "ended" /\ ops[i].result.threw
              /\ ops[j].pc = "ended" /\ ~ops[j].result.threw

(***************************************************************************)
(* SpecLive: up to MaxTxns doTxn calls whose callbacks register up to      *)
(* MaxOps operations in all.  Every registered operation finishes, and the *)
(* continuation of execute runs once its operation has finished.           *)
(***************************************************************************)
\* n calls of execute on transaction t.
RECURSIVE ExecuteTimes(_, _, _, _)
ExecuteTimes(txs, os, t, n) ==
    IF n = 0 THEN [txns |-> txs, ops |-> os]
    ELSE LET e == ExecuteOn(txs, os, t, NewOp("func", t, <<>>, <<>>, Undefined))
         IN  ExecuteTimes(e.txns, e.ops, t, n - 1)

\* doTxn(mode, stores, func): a new Transaction, then func(txn), which here
\* calls execute n times before it returns.
DoTxnCallback(n) ==
    /\ Len(txns) < MaxTxns
    /\ Len(ops) + n <= MaxOps
    /\ LET txs == Append(txns, NewTransaction)
           e == ExecuteTimes(txs, ops, Len(txs), n)
       IN  txns' = e.txns /\ ops' = e.ops
    /\ failures' = Append(failures, <<>>)
    /\ UNCHANGED storage

NextLive ==
    \/ \E n \in 0..MaxOps : DoTxnCallback(n)
    \/ \E i \in DOMAIN ops, r \in {NoResult, ThrowResult(Err("E1"))} : FuncSettles(i, r)
    \/ \E i \in DOMAIN ops : OperationEnded(i)

SpecLive ==
    /\ Init
    /\ [][NextLive]_vars
    /\ WF_vars(\E i \in DOMAIN ops, r \in {NoResult, ThrowResult(Err("E1"))} :
                  FuncSettles(i, r))
    /\ WF_vars(\E i \in DOMAIN ops : OperationEnded(i))

\* C29 (as claimed): when all registered operations finish, the promise of
\* every doTxn call eventually settles, also that of a call whose callback
\* registered no operation.
C29_EveryDoTxnSettles ==
    \A t \in 1..MaxTxns :
        (t \in DOMAIN txns) ~> (t \in DOMAIN txns /\ Settled(txns[t]))

(***************************************************************************)
(* SpecAdd: up to MaxTxns transactions on which the callers issue adds of  *)
(* one group session with two values and reads of it, without waiting, so  *)
(* that the operations of all transactions run interleaved.  An add that   *)
(* has not returned may still register its write: the sequence of          *)
(* operations is kept within MaxOps by leaving room for that write.        *)
(***************************************************************************)
AddMenu ==
    {Tpl("addEndToEndInboundGroupSession", <<"a">>, <<"b">>, v) : v \in Data}
    \cup {Tpl("getEndToEndInboundGroupSession", <<"a">>, <<"b">>, Undefined)}

\* The adds whose function has not returned.
PendingAdds == {i \in DOMAIN ops : IsGroupAdd(ops[i]) /\ ops[i].pc = "run"}

\* The places operation op may take in the sequence of operations.
RoomFor(op) == IF IsGroupAdd(op) THEN 2 ELSE 1

NextAdd ==
    \/ DoTxn
    \/ \E op \in AddMenu :
          /\ txns # <<>>
          /\ Len(ops) + Cardinality(PendingAdds) + RoomFor(op) <= MaxOps
          /\ IssueOp(Len(txns), op)
    \/ \E i \in DOMAIN ops : AddGroupSessionStep(i)
    \/ \E i \in DOMAIN ops : StoreStep(i)
    \/ \E i \in DOMAIN ops : GetGroupSessionStep(i)
    \/ \E i \in DOMAIN ops : OperationEnded(i)

SpecAdd == Init /\ [][NextAdd]_vars

\* The function of add operation i returns in this step, having found
\* nothing under its key.
AddFindsNothing(i) ==
    /\ IsGroupAdd(ops[i])
    /\ ops[i].pc = "run"
    /\ ops'[i].pc = "finished"
    /\ KeyOf(ops[i]) \notin DOMAIN storage

\* The writes of group sessions under the key of operation n that have
\* reached the backend.
WritesDone(n) ==
    {x \in DOMAIN ops : IsGroupStore(ops[x]) /\ SameIds(ops[x], ops[n]) /\ Done(ops[x])}

\* C30: in the step in which an add that found nothing under its key
\* returns, its write is registered on the add's context as a started
\* operation and the context is not settled; and in every state in which a
\* context is settled, every write registered on it has reached the
\* backend: its key is stored, with the added value when no other write to
\* that key has been made.
C30_AddWriteRegisteredBeforeAddEnds ==
    [][ /\ \A i \in DOMAIN ops :
              AddFindsNothing(i) =>
                  /\ Len(ops') = Len(ops) + 1
                  /\ LET n == ops'[Len(ops')]
                         t == ops[i].txn
                     IN  /\ IsGroupStore(n) /\ SameIds(n, ops[i])
                         /\ n.val = ops[i].val
                         /\ n.txn = t
                         /\ n.pc = "run"
                         /\ txns'[t].numOps = txns[t].numOps + 1
                         /\ ~Settled(txns'[t])
        /\ \A t \in DOMAIN txns' :
              Settled(txns'[t]) =>
                  \A n \in DOMAIN ops' :
                      (ops'[n].txn = t /\ IsGroupStore(ops'[n])) =>
                          /\ ops'[n].pc = "ended"
                          /\ KeyOf(ops'[n]) \in DOMAIN storage'
                          /\ storage'[KeyOf(ops'[n])] \in
                                {JsonStringify(ops'[x].val) : x \in WritesDone(n)'}
      ]_vars

\* C30 witness: a context with one add has settled after the add's
\* operation and the write it registered ended, and the added value is in
\* the backend.
C30_Witness ==
    \E t \in DOMAIN txns, i, n \in DOMAIN ops :
        /\ txns[t].promise = "resolved"
        /\ OpsOf(t) = {i, n}
        /\ IsGroupAdd(ops[i]) /\ ops[i].pc = "ended"
        /\ IsGroupStore(ops[n]) /\ ops[n].pc = "ended"
        /\ storage[KeyOf(ops[i])] = JsonStringify(ops[i].val)

(***************************************************************************)
(* SpecAddRace: up to MaxTxns transactions on which the callers issue up   *)
(* to MaxOps adds of one group session with two values, without waiting,   *)
(* so that the adds of one transaction and of different transactions run   *)
(* interleaved.                                                            *)
(***************************************************************************)
AddRaceMenu ==
    {Tpl("addEndToEndInboundGroupSession", <<"a">>, <<"b">>, v) : v \in Data}

\* The operations the callers have issued: every add, and no nested write.
IssuedAdds == {i \in DOMAIN ops : IsGroupAdd(ops[i])}

NextAddRace ==
    \/ DoTxn
    \/ \E op \in AddRaceMenu :
          /\ txns # <<>>
          /\ Cardinality(IssuedAdds) < MaxOps
          /\ txns' = ExecuteOn(txns, ops, Len(txns), [op EXCEPT !.txn = Len(txns)]).txns
          /\ ops' = ExecuteOn(txns, ops, Len(txns), [op EXCEPT !.txn = Len(txns)]).ops
          /\ UNCHANGED <<storage, failures>>
    \/ \E i \in DOMAIN ops : AddGroupSessionStep(i)
    \/ \E i \in DOMAIN ops : StoreStep(i)
    \/ \E i \in DOMAIN ops : OperationEnded(i)

SpecAddRace == Init /\ [][NextAddRace]_vars

\* The writes the adds have registered for the identifiers of operation i.
WritesFor(i) ==
    {n \in DOMAIN ops : IsGroupStore(ops[n]) /\ SameIds(ops[n], ops[i])}

\* C31: of the adds issued for one pair of identifiers, at most one
\* registers a write, and no step changes or removes a value that is stored
\* under a group session's key.
C31_AddWriteOnceUnderInterleaving ==
    [][ /\ \A i \in DOMAIN ops' :
              IsGroupAdd(ops'[i]) => Cardinality(WritesFor(i)') <= 1
        /\ \A k \in DOMAIN storage :
              k \in DOMAIN storage' /\ storage'[k] = storage[k]
      ]_vars

(***************************************************************************)
(* Methods that take no transaction, called without waiting for the calls  *)
(* made before (`Promise.all([store.op(...), store.op(...)])`).            *)
(***************************************************************************)
CallConcurrently(op, max) ==
    /\ Calls < max
    /\ ops' = Append(ops, op)
    /\ UNCHANGED <<storage, txns, failures>>

(***************************************************************************)
(* SpecMarkRace: up to MaxCalls calls: markSessionsNeedingBackup with one  *)
(* of two lists, called without waiting for other marks, and               *)
(* countSessionsNeedingBackup, called when every earlier call has          *)
(* completed and awaited before the next call.                             *)
(***************************************************************************)
MarkRaceLists ==
    { <<<<<<"a">>, <<"b">>>>>>, <<<<<<"a">>, <<"c">>>>>> }

\* No countSessionsNeedingBackup is running.
CountsAwaited ==
    \A i \in DOMAIN ops :
        ops[i].kind = "countSessionsNeedingBackup" => ops[i].pc = "ended"

NextMarkRace ==
    \/ \E l \in MarkRaceLists :
          /\ CountsAwaited
          /\ CallConcurrently(Tpl("markSessionsNeedingBackup", <<>>, <<>>, l), MaxCalls)
    \/ CallDirect(Tpl("countSessionsNeedingBackup", <<>>, <<>>, Undefined), MaxCalls)
    \/ \E i \in DOMAIN ops : MarkSessionsStep(i)
    \/ \E i \in DOMAIN ops : CountSessionsNeedingBackupStep(i)

SpecMarkRace == Init /\ [][NextMarkRace]_vars

\* The member keys of the sessions passed to the marks issued before
\* operation k (all of them when k is past the last operation).
MarkedBefore(k) ==
    {MemberKey(ops[j].val[n]) :
        j \in {x \in 1..(k - 1) : IsMark(ops[x])}, n \in 1..1}

\* The backup-membership set the backend holds.
StoredMembers ==
    Range(OrEmptyObject(GetJsonItem(storage, KEY_SESSIONS_NEEDING_BACKUP).value))

\* C32: whenever every call has completed, every session passed to a mark
\* is a member of the stored backup-membership set, and every count that
\* has completed returned the number of distinct sessions marked before it.
C32_NoMarkLost ==
    Quiescent =>
        /\ MarkedBefore(Len(ops) + 1) \subseteq StoredMembers
        /\ \A k \in DOMAIN ops :
              ops[k].kind = "countSessionsNeedingBackup" =>
                  ops[k].out = <<Cardinality(MarkedBefore(k))>>

(***************************************************************************)
(* SpecParkedRace: up to MaxCalls calls for one room, made without         *)
(* waiting: addParkedSharedHistory, each with a record of its own, and     *)
(* takeParkedSharedHistory.                                                *)
(***************************************************************************)
ParkedRaceRoom == <<"r">>

\* The adds made so far.
ParkedAdds == {i \in DOMAIN ops : ops[i].kind = "addParkedSharedHistory"}

NextParkedRace ==
    \/ \E v \in Data :
          /\ \A i \in ParkedAdds : ops[i].val # v
          /\ CallConcurrently(Tpl("addParkedSharedHistory", ParkedRaceRoom, <<>>, v),
                              MaxCalls)
    \/ CallConcurrently(Tpl("takeParkedSharedHistory", ParkedRaceRoom, <<>>, Undefined),
                        MaxCalls)
    \/ \E i \in DOMAIN ops : AddParkedSharedHistoryStep(i)
    \/ \E i \in DOMAIN ops : TakeParkedSharedHistoryStep(i)

SpecParkedRace == Init /\ [][NextParkedRace]_vars

\* The list stored for the room.
StoredParked ==
    OrEmptyArray(GetJsonItem(storage, KeyParkedSharedHistory(ParkedRaceRoom)).value)

\* The places where record v is: positions of the stored list (under 0)
\* and positions of the lists the completed takes returned.
PlacesOf(v) ==
    {<<0, n>> : n \in {x \in DOMAIN StoredParked : StoredParked[x] = v}}
    \cup UNION {{<<k, n>> : n \in {x \in DOMAIN ops[k].out[1] : ops[k].out[1][x] = v}} :
                   k \in {x \in DOMAIN ops : ops[x].kind = "takeParkedSharedHistory"
                                              /\ ops[x].out # <<>>}}

\* C33: whenever every call has completed, every record that was added is
\* in exactly one place: in the stored list of the room, once, or in the
\* list returned by one take, once.
C33_NoParkedRecordLostOrDuplicated ==
    Quiescent => \A i \in ParkedAdds : Cardinality(PlacesOf(ops[i].val)) = 1

(***************************************************************************)
(* SpecUpdateRace: up to MaxCalls calls on one outgoing room key request:  *)
(* getOrAddOutgoingRoomKeyRequest, awaited, which creates it in state 0,   *)
(* and updateOutgoingRoomKeyRequest calls that expect state 0 and set      *)
(* state 1 or state 2, made without waiting.                               *)
(***************************************************************************)
RaceRequest ==
    [requestId |-> <<"a">>, state |-> 0,
     requestBody |-> [room_id |-> "room-1", session_id |-> "session-1"]]

\* No getOrAddOutgoingRoomKeyRequest is running.
GetOrAddsAwaited ==
    \A i \in DOMAIN ops :
        ops[i].kind = "getOrAddOutgoingRoomKeyRequest" => ops[i].pc = "ended"

NextUpdateRace ==
    \/ CallDirect(Tpl("getOrAddOutgoingRoomKeyRequest", <<>>, <<>>, RaceRequest), MaxCalls)
    \/ \E st \in {1, 2} :
          /\ GetOrAddsAwaited
          /\ CallConcurrently(Tpl("updateOutgoingRoomKeyRequest", RaceRequest.requestId, 0,
                                  [state |-> st]), MaxCalls)
    \/ \E i \in DOMAIN ops : GetOrAddOutgoingRoomKeyRequestStep(i)
    \/ \E i \in DOMAIN ops : UpdateOutgoingRoomKeyRequestStep(i)

SpecUpdateRace == Init /\ [][NextUpdateRace]_vars

\* The updates that returned a request.
SuccessfulUpdates ==
    {k \in DOMAIN ops : /\ IsUpdate(ops[k])
                        /\ ops[k].out # <<>>
                        /\ ops[k].out[1] # Null}

\* C34: whenever every call has completed, at most one of the updates that
\* expected state 0 has returned a request, and the stored request is the
\* one that update returned.
C34_UpdateIsCompareAndSwap ==
    Quiescent =>
        /\ Cardinality(SuccessfulUpdates) <= 1
        /\ \A k \in SuccessfulUpdates :
              StoredRequest(RaceRequest.requestId) = ops[k].out[1]

(***************************************************************************)
(* SpecNeedsBackup: up to MaxListCalls awaited calls that store two group  *)
(* sessions, mark and unmark one of them as needing backup, and retrieve   *)
(* a batch of group sessions.                                              *)
(***************************************************************************)
NeedsBackupMenu ==
    {Tpl("storeEndToEndInboundGroupSession", <<"a">>, sid, Obj("some-session")) :
        sid \in {<<"b">>, <<"c">>}}

NeedsBackupDirectMenu ==
    {Tpl(k, <<>>, <<>>, <<<<<<"a">>, <<"b">>>>>>) :
        k \in {"markSessionsNeedingBackup", "unmarkSessionsNeedingBackup"}}
    \cup {Tpl("getEndToEndInboundGroupSessionsBatch", <<>>, <<>>, Undefined)}

NextNeedsBackup ==
    \/ \E op \in NeedsBackupMenu : Call(op, MaxListCalls)
    \/ \E op \in NeedsBackupDirectMenu : CallDirect(op, MaxListCalls)
    \/ \E i \in DOMAIN ops : StoreStep(i)
    \/ \E i \in DOMAIN ops : OperationEnded(i)
    \/ \E i \in DOMAIN ops : MarkSessionsStep(i)
    \/ \E i \in DOMAIN ops : UnmarkSessionsStep(i)
    \/ \E i \in DOMAIN ops : GetGroupSessionsBatchStep(i)
    \/ \E i \in DOMAIN ops : GetSessionsNeedingBackupStep(i)

SpecNeedsBackup == Init /\ [][NextNeedsBackup]_vars

\* C35: every entry of a batch of group sessions that was returned has
\* needsBackup true exactly when its (sender key, session id) was a member
\* of the backup-membership set when the batch was retrieved.
C35_NeedsBackupIsMembership ==
    \A k \in DOMAIN ops :
        (/\ ops[k].kind = "getEndToEndInboundGroupSessionsBatch"
         /\ ops[k].pc = "ended"
         /\ ops[k].out # <<>>
         /\ ops[k].out[1] # Null) =>
            \A n \in DOMAIN ops[k].out[1] :
                LET entry == ops[k].out[1][n]
                IN  entry[5] <=> (<<entry[2], entry[3]>> \in MembersBefore(k))

(***************************************************************************)
(* SpecDisjoint: up to MaxListCalls awaited calls that store a session, a  *)
(* group session, a withheld record, a session problem and a backup mark,  *)
(* all with the same identifiers, and count the sessions, count the group  *)
(* sessions and list the group sessions.                                   *)
(***************************************************************************)
DisjointMenu ==
    { Tpl("storeEndToEndSession", <<"a">>, <<"b">>, Obj("some-session")),
      Tpl("storeEndToEndInboundGroupSession", <<"a">>, <<"b">>, Obj("some-session")),
      Tpl("storeEndToEndInboundGroupSessionWithheld", <<"a">>, <<"b">>,
          Obj("some-code")),
      Tpl("countEndToEndSessions", <<>>, <<>>, Undefined),
      Tpl("getAllEndToEndInboundGroupSessions", <<>>, <<>>, Undefined) }

DisjointDirectMenu ==
    { Tpl("storeEndToEndSessionProblem", <<"a">>, "wedged",
          [fixed |-> FALSE, now |-> 1]),
      Tpl("markSessionsNeedingBackup", <<>>, <<>>, <<<<<<"a">>, <<"b">>>>>>),
      Tpl("countEndToEndInboundGroupSessions", <<>>, <<>>, Undefined) }

NextDisjoint ==
    \/ \E op \in DisjointMenu : Call(op, MaxListCalls)
    \/ \E op \in DisjointDirectMenu : CallDirect(op, MaxListCalls)
    \/ \E i \in DOMAIN ops : StoreStep(i)
    \/ \E i \in DOMAIN ops : OperationEnded(i)
    \/ \E i \in DOMAIN ops : StoreSessionProblemStep(i)
    \/ \E i \in DOMAIN ops : MarkSessionsStep(i)
    \/ \E i \in DOMAIN ops : CountSessionsStep(i)
    \/ \E i \in DOMAIN ops : CountGroupSessionsStep(i)
    \/ \E i \in DOMAIN ops : GetAllGroupSessionsStep(i)

SpecDisjoint == Init /\ [][NextDisjoint]_vars

\* The operations that store a withheld record, a session-problem log or a
\* backup-membership mark.
OtherKinds ==
    {"storeEndToEndInboundGroupSessionWithheld", "storeEndToEndSessionProblem",
     "markSessionsNeedingBackup"}

\* What the backend holds under the keys that start with the prefix.
Under(prefix) ==
    [k \in {x \in DOMAIN storage : StartsWith(x, prefix)} |-> storage[k]]

\* C36: a step of an operation that stores a withheld record, a session
\* problem or a backup mark leaves the keys and the values under the
\* session prefix and under the group-session prefix as they were; and
\* every completed count of sessions, count of group sessions and listing
\* of group sessions has returned what the stores of its own kind made
\* before it determine, whatever records of the other kinds were stored.
C36_NamespacesDisjoint ==
    [][ /\ \A i \in DOMAIN ops :
              (ops[i].kind \in OtherKinds /\ ops'[i] # ops[i]) =>
                  /\ Under(END_TO_END_SESSION_PREFIX)' = Under(END_TO_END_SESSION_PREFIX)
                  /\ Under(INBOUND_SESSION_PREFIX)' = Under(INBOUND_SESSION_PREFIX)
        /\ \A k \in DOMAIN ops' :
              Done(ops'[k]) =>
                  /\ ops'[k].kind = "countEndToEndSessions" =>
                        ops'[k].out =
                            <<Cardinality(PairsBefore(k, "storeEndToEndSession")')>>
                  /\ ops'[k].kind = "countEndToEndInboundGroupSessions" =>
                        ops'[k].out =
                            <<Cardinality(PairsBefore(k, "storeEndToEndInboundGroupSession")')>>
                  /\ ops'[k].kind = "getAllEndToEndInboundGroupSessions" =>
                        {ops'[k].out[x] : x \in 1..(Len(ops'[k].out) - 1)} =
                            GroupEntriesBefore(k)'
      ]_vars

\* C36 witness: a group session and then a withheld record were stored for
\* the same identifiers, and after both a count of group sessions returned 1
\* and a listing delivered the one entry with the stored data and then null.
C36_Witness ==
    \E g, w, c, l \in DOMAIN ops :
        /\ g < w /\ w < c /\ w < l
        /\ IsGroupStore(ops[g])
        /\ ops[w].kind = "storeEndToEndInboundGroupSessionWithheld"
        /\ SameIds(ops[g], ops[w])
        /\ ops[w].pc = "ended"
        /\ ops[c].kind = "countEndToEndInboundGroupSessions"
        /\ ops[c].out = <<1>>
        /\ ops[l].kind = "getAllEndToEndInboundGroupSessions"
        /\ ops[l].pc = "ended"
        /\ ops[l].out = <<Entry(ops[g].a1, ops[g].a2, ops[g].val), Null>>

(***************************************************************************)
(* filterOutNotifiedErrorDevices.  A device is a record of its user id and *)
(* its device id; the stored object maps a user id to an object that maps  *)
(* device ids to true.                                                     *)
(***************************************************************************)
\* Property names every object parsed from JSON inherits from
\* Object.prototype.
ObjectPrototypeProperties ==
    {"constructor", "toString", "valueOf", "hasOwnProperty"}

\* `name in obj` on a plain object: own and inherited properties.
In(name, obj) == name \in DOMAIN obj \/ name \in ObjectPrototypeProperties

\* The loop over devices: ret and notifiedErrorDevices after it.
RECURSIVE FilterDevices(_, _, _)
FilterDevices(notifiedErrorDevices, devices, ret) ==
    IF devices = <<>> THEN [notified |-> notifiedErrorDevices, ret |-> ret]
    ELSE LET device == Head(devices)
             userId == device.userId
             deviceId == device.deviceId
         IN  IF In(userId, notifiedErrorDevices)
             THEN IF ~In(deviceId, notifiedErrorDevices[userId])
                  THEN FilterDevices(
                           ObjSet(notifiedErrorDevices, userId,
                                  ObjSet(notifiedErrorDevices[userId], deviceId, TRUE)),
                           Tail(devices), Append(ret, device))
                  ELSE FilterDevices(notifiedErrorDevices, Tail(devices), ret)
             ELSE FilterDevices(
                      ObjSet(notifiedErrorDevices, userId, ObjSet(<<>>, deviceId, TRUE)),
                      Tail(devices), Append(ret, device))

\* filterOutNotifiedErrorDevices(val): read the object, run the loop, write
\* the object back, return ret.
FilterOutNotifiedErrorDevicesStep(i) ==
    /\ ops[i].kind = "filterOutNotifiedErrorDevices"
    /\ ops[i].pc = "run"
    /\ LET op == ops[i]
           r == GetJsonItem(storage, KEY_NOTIFIED_ERROR_DEVICES)
       IN  IF op.ph = 0
           THEN /\ storage' = storage
                /\ ops' = [ops EXCEPT ![i] =
                              IF r.threw THEN Reject(op, r.value)
                              ELSE [op EXCEPT !.ph = 1,
                                        !.acc = FilterDevices(OrEmptyObject(r.value),
                                                              op.val, <<>>)]]
           ELSE /\ storage' = SetJsonItem(storage, KEY_NOTIFIED_ERROR_DEVICES,
                                          Obj(op.acc.notified))
                /\ ops' = [ops EXCEPT ![i] = Return(op, op.acc.ret)]
    /\ UNCHANGED <<txns, failures>>

(***************************************************************************)
(* SpecNotified: up to MaxCalls awaited calls of                           *)
(* filterOutNotifiedErrorDevices with lists of one or two devices of two   *)
(* users.                                                                  *)
(***************************************************************************)
NotifiedDevices ==
    [userId : {"@alice:example.org", "@bob:example.org"},
     deviceId : {"DEVICEONE", "toString"}]

NotifiedLists ==
    {<<d>> : d \in NotifiedDevices} \cup {<<d, e>> : d, e \in NotifiedDevices}

NextNotified ==
    \/ \E l \in NotifiedLists :
          CallDirect(Tpl("filterOutNotifiedErrorDevices", <<>>, <<>>, l), MaxCalls)
    \/ \E i \in DOMAIN ops : FilterOutNotifiedErrorDevicesStep(i)

SpecNotified == Init /\ [][NextNotified]_vars

\* The devices passed to the calls made before operation k.
PassedBefore(k) == UNION {Range(ops[j].val) : j \in 1..(k - 1)}

\* The devices of the list that are not in the set, each at its first
\* place, in the order of the list.
RECURSIVE FirstNew(_, _)
FirstNew(devices, seen) ==
    IF devices = <<>> THEN <<>>
    ELSE IF Head(devices) \in seen THEN FirstNew(Tail(devices), seen)
    ELSE <<Head(devices)>> \o FirstNew(Tail(devices), seen \cup {Head(devices)})

\* The devices the stored object records.
RecordedDevices ==
    LET stored == OrEmptyObject(GetJsonItem(storage, KEY_NOTIFIED_ERROR_DEVICES).value)
    IN  {d \in NotifiedDevices :
            d.userId \in DOMAIN stored /\ d.deviceId \in DOMAIN stored[d.userId]}

\* C37: a completed filterOutNotifiedErrorDevices has returned the devices
\* of its list that no earlier call was passed, in the order of the list
\* and each once; and when every call has completed the stored object
\* records exactly the devices passed to the calls.
C37_FilterReturnsNewDevicesOnce ==
    /\ \A k \in DOMAIN ops :
          ops[k].pc = "ended" =>
              ops[k].out = <<FirstNew(ops[k].val, PassedBefore(k))>>
    /\ Quiescent => RecordedDevices = PassedBefore(Len(ops) + 1)

(***************************************************************************)
(* SpecBackupCount: up to MaxBackupCalls awaited calls that store one      *)
(* group session, mark and unmark it as needing backup, delete it by       *)
(* batch delete, count the sessions needing backup and get them without    *)
(* limit.                                                                  *)
(***************************************************************************)
BackupCountPair == <<<<"a">>, <<"b">>>>

BackupCountDirectMenu ==
    { Tpl("markSessionsNeedingBackup", <<>>, <<>>, <<BackupCountPair>>),
      Tpl("unmarkSessionsNeedingBackup", <<>>, <<>>, <<BackupCountPair>>),
      Tpl("deleteEndToEndInboundGroupSessionsBatch", <<>>, <<>>, <<BackupCountPair>>),
      Tpl("countSessionsNeedingBackup", <<>>, <<>>, Undefined),
      Tpl("getSessionsNeedingBackup", <<>>, <<>>, 0) }

NextBackupCount ==
    \/ Call(Tpl("storeEndToEndInboundGroupSession", BackupCountPair[1],
                BackupCountPair[2], Obj("some-session")), MaxBackupCalls)
    \/ \E op \in BackupCountDirectMenu : CallDirect(op, MaxBackupCalls)
    \/ \E i \in DOMAIN ops : StoreStep(i)
    \/ \E i \in DOMAIN ops : OperationEnded(i)
    \/ \E i \in DOMAIN ops : DeleteGroupSessionsBatchStep(i)
    \/ \E i \in DOMAIN ops : MarkSessionsStep(i)
    \/ \E i \in DOMAIN ops : UnmarkSessionsStep(i)
    \/ \E i \in DOMAIN ops : CountSessionsNeedingBackupStep(i)
    \/ \E i \in DOMAIN ops : GetSessionsNeedingBackupStep(i)

SpecBackupCount == Init /\ [][NextBackupCount]_vars

IsBackupCount(op) == op.kind = "countSessionsNeedingBackup" /\ op.pc = "ended"
IsBackupGet(op) == op.kind = "getSessionsNeedingBackup" /\ op.pc = "ended"

\* C38: a completed countSessionsNeedingBackup has returned the number of
\* members of the backup-membership set, whether or not their group
\* sessions are stored or were deleted; a completed
\* getSessionsNeedingBackup(0) has returned only members whose group
\* session is stored; and a count is never below the length of a get(0)
\* made on the same membership set.
C38_CountIgnoresGroupSessionData ==
    \A c \in DOMAIN ops :
        IsBackupCount(ops[c]) =>
            /\ ops[c].out = <<Cardinality(MembersBefore(c))>>
            /\ \A g \in DOMAIN ops :
                  (IsBackupGet(ops[g]) /\ MembersBefore(g) = MembersBefore(c)) =>
                      /\ Range(ops[g].out[1]) = JoinedBefore(g)
                      /\ ops[c].out[1] >= Len(ops[g].out[1])

\* C38 witness: a group session was stored, marked and then deleted by
\* batch delete; after that the count returned 1 and
\* getSessionsNeedingBackup(0) returned the empty list.
C38_Witness ==
    \E s, m, d, c, g \in DOMAIN ops :
        /\ s < d /\ m < d /\ d < c /\ d < g
        /\ IsGroupStore(ops[s])
        /\ IsMark(ops[m])
        /\ ops[d].kind = "deleteEndToEndInboundGroupSessionsBatch"
        /\ IsBackupCount(ops[c]) /\ ops[c].out = <<1>>
        /\ IsBackupGet(ops[g]) /\ ops[g].out = << <<>> >>

====
